---- MODULE Spec2Model ----
(***************************************************************************)
(* Verification model of home-tour-maker: the scene planner                *)
(* (src/pipeline/scene-plan.ts), the Veo render-job client                 *)
(* (src/pipeline/veo.ts), the video assembler (src/pipeline/assemble.ts)   *)
(* and the tour pipeline with its job queue (src/index.ts).                *)
(*                                                                         *)
(* Durations are JavaScript numbers in the source.  The model computes     *)
(* them as exact rationals <<n, d>> (d > 0, lowest terms), so a sum, a     *)
(* ratio and a comparison are the mathematical ones.                       *)
(***************************************************************************)
EXTENDS Integers, Sequences, FiniteSets, TLC

(***************************************************************************)
(* Exact rational arithmetic                                               *)
(***************************************************************************)
Abs(x) == IF x < 0 THEN -x ELSE x

RECURSIVE GCD(_, _)
GCD(a, b) == IF b = 0 THEN a ELSE GCD(b, a % b)

Rat(n, d) ==
  LET s == IF d < 0 THEN -1 ELSE 1
      g == GCD(Abs(n), Abs(d))
  IN  <<(s * n) \div g, (s * d) \div g>>

RInt(k) == <<k, 1>>
RAdd(a, b) == Rat(a[1] * b[2] + b[1] * a[2], a[2] * b[2])
RSub(a, b) == Rat(a[1] * b[2] - b[1] * a[2], a[2] * b[2])
RMul(a, b) == Rat(a[1] * b[1], a[2] * b[2])
RDiv(a, b) == Rat(a[1] * b[2], a[2] * b[1])
RLt(a, b) == a[1] * b[2] < b[1] * a[2]
RLe(a, b) == a[1] * b[2] <= b[1] * a[2]
RMin(a, b) == IF RLe(a, b) THEN a ELSE b
RMax(a, b) == IF RLe(a, b) THEN b ELSE a

Min(a, b) == IF a <= b THEN a ELSE b
Max(a, b) == IF a >= b THEN a ELSE b
CeilDiv(a, b) == (a + b - 1) \div b

\* Array.prototype.reduce((sum, x) => sum + f(x), 0) over a sequence of rationals
RECURSIVE RSum(_)
RSum(s) == IF s = <<>> THEN RInt(0) ELSE RAdd(s[1], RSum(Tail(s)))

\* Array.prototype.sort with a comparator a.key - b.key (stable, ascending),
\* over a sequence of pairs <<key, item>>
RECURSIVE InsertByKey(_, _)
InsertByKey(sorted, x) ==
  IF sorted = <<>> THEN <<x>>
  ELSE IF sorted[1][1] <= x[1]
       THEN <<sorted[1]>> \o InsertByKey(Tail(sorted), x)
       ELSE <<x>> \o sorted

RECURSIVE StableSortFrom(_, _)
StableSortFrom(acc, s) ==
  IF s = <<>> THEN acc
  ELSE StableSortFrom(InsertByKey(acc, s[1]), Tail(s))

StableSort(s) == StableSortFrom(<<>>, s)

\* position of x in the sequence s, 0 when absent (indexOf + 1)
RECURSIVE IndexOfFrom(_, _, _)
IndexOfFrom(s, x, i) ==
  IF i > Len(s) THEN 0 ELSE IF s[i] = x THEN i ELSE IndexOfFrom(s, x, i + 1)

IndexOf(s, x) == IndexOfFrom(s, x, 1)

(***************************************************************************)
(* Bounds of the model                                                     *)
(***************************************************************************)
MaxImages == 5

\* room labels the enumerated inputs carry: three known rooms, a missing
\* label ("") and a label outside the taxonomy
InputRooms == {"exterior", "entry", "living", "", "garage"}
TargetChoices == {6, 12, 30}
VeoCapChoices == {1, 15}
PreferVeoChoices == {TRUE, FALSE}

(***************************************************************************)
(* Scene planner, src/pipeline/scene-plan.ts                               *)
(***************************************************************************)
roomOrder == <<"exterior", "entry", "living", "kitchen", "bedroom", "bathroom", "backyard">>
veoPriority == <<"exterior", "living", "kitchen", "bedroom", "entry", "bathroom", "backyard">>

minSegmentDuration == 4
maxSegmentDuration == 8
\* crossfadeDuration = 0.75
crossfadeDuration == <<3, 4>>

\* Map<string, ImageInput[]> in insertion order: a sequence of <<room, images>>
MapHas(groups, room) == \E i \in 1..Len(groups) : groups[i][1] = room

MapGet(groups, room) ==
  LET i == CHOOSE j \in 1..Len(groups) : groups[j][1] = room IN groups[i][2]

MapPush(groups, room, image) ==
  [i \in 1..Len(groups) |->
     IF groups[i][1] = room THEN <<room, Append(groups[i][2], image)>> ELSE groups[i]]

MapDelete(groups, room) == SelectSeq(groups, LAMBDA e : e[1] # room)

\* sortedRooms left in the order it has
SortRoomsByLength_unsorted(rooms, groups) == rooms
\* sortedRooms.sort(([, a], [, b]) => a.length - b.length), the arrays being
\* the ones held by the map
SortRoomsByLength(rooms, groups) ==
  LET keyed == [i \in 1..Len(rooms) |-> <<Len(MapGet(groups, rooms[i])), rooms[i]>>]
      sorted == StableSort(keyed)
  IN  [i \in 1..Len(sorted) |-> sorted[i][2]]

RECURSIVE RedistributeLoop(_, _, _)
RedistributeLoop(otherImages, groups, sortedRooms) ==
  IF otherImages = <<>> THEN groups
  ELSE IF Len(sortedRooms) > 0
       THEN LET pushed == MapPush(groups, sortedRooms[1], otherImages[1])
            IN  RedistributeLoop(Tail(otherImages), pushed,
                                 SortRoomsByLength(sortedRooms, pushed))
       ELSE LET withLiving == IF MapHas(groups, "living") THEN groups
                              ELSE Append(groups, <<"living", <<>>>>)
            IN  RedistributeLoop(Tail(otherImages),
                                 MapPush(withLiving, "living", otherImages[1]),
                                 sortedRooms)

redistributeOtherImages(otherImages, groups) ==
  LET entries == SelectSeq(groups, LAMBDA e : e[1] # "other" /\ Len(e[2]) > 0)
      names == [i \in 1..Len(entries) |-> entries[i][1]]
  IN  RedistributeLoop(otherImages, groups, SortRoomsByLength(names, groups))

\* the bucket an image is pushed to: image.room || 'other', and the 'other'
\* bucket again when the map has no entry for the label
BucketOf(image) ==
  IF image.room = "" THEN "other"
  ELSE IF IndexOf(roomOrder, image.room) # 0 \/ image.room = "other" THEN image.room
  ELSE "other"

groupImagesByRoom(imgs) ==
  LET keys == Append(roomOrder, "other")
      filled == [i \in 1..Len(keys) |->
                   <<keys[i], SelectSeq(imgs, LAMBDA im : BucketOf(im) = keys[i])>>]
      kept == SelectSeq(filled, LAMBDA e : ~(Len(e[2]) = 0 /\ e[1] # "other"))
      otherImages == MapGet(kept, "other")
  IN  IF Len(otherImages) > 0
      THEN MapDelete(redistributeOtherImages(otherImages, kept), "other")
      ELSE kept

\* estimatedSegments = min(roomCount + 2, maxVeoSegments * 1.5)
calculateTiming(targetSeconds, roomCount, maxVeoSegments) ==
  LET estimatedSegments == RMin(RInt(roomCount + 2), Rat(3 * maxVeoSegments, 2))
      crossfadeTime == RMul(RMax(RInt(0), RSub(estimatedSegments, RInt(1))),
                            crossfadeDuration)
      availableContentTime == RSub(RInt(targetSeconds), crossfadeTime)
      idealSegmentDuration ==
        RMax(RInt(minSegmentDuration),
             RMin(RInt(maxSegmentDuration),
                  RDiv(availableContentTime, RInt(roomCount))))
  IN  [targetDuration |-> targetSeconds,
       availableContentTime |-> availableContentTime,
       idealSegmentDuration |-> idealSegmentDuration,
       maxVeoSegments |-> maxVeoSegments,
       crossfadeTime |-> crossfadeTime,
       roomCount |-> roomCount]

\* images.slice(from, to) with 0-based, end-exclusive indices
Slice(s, from, to) == SubSeq(s, from + 1, Min(to, Len(s)))

\* the test of createRoomScenes without the exception of the exterior
SplitsRoom_exteriorToo(room, imgs) == Len(imgs) > 4
\* images.length > 4 && room !== 'exterior'
SplitsRoom(room, imgs) == Len(imgs) > 4 /\ room # "exterior"

\* createRoomScenes with the sub-scene size rounded down: the tail of a large
\* room is dropped
createRoomScenes_floor(room, imgs, timing) ==
  IF SplitsRoom(room, imgs)
  THEN LET scenesNeeded == CeilDiv(Len(imgs), 3)
           imagesPerScene == Len(imgs) \div scenesNeeded
       IN  [k \in 1..scenesNeeded |->
              [id |-> <<room, k, FALSE>>,
               room |-> room,
               images |-> Slice(imgs, (k - 1) * imagesPerScene, k * imagesPerScene),
               duration |-> timing.idealSegmentDuration,
               type |-> "veo"]]
  ELSE <<[id |-> <<room, 0, FALSE>>,
          room |-> room,
          images |-> imgs,
          duration |-> timing.idealSegmentDuration,
          type |-> "veo"]>>

\* a scene id is <<room, k, filler>>: `${room}` (k = 0), `${room}_${k}` and
\* `${id}_filler`
createRoomScenes(room, imgs, timing) ==
  IF SplitsRoom(room, imgs)
  THEN LET scenesNeeded == CeilDiv(Len(imgs), 3)
           imagesPerScene == CeilDiv(Len(imgs), scenesNeeded)
       IN  [k \in 1..scenesNeeded |->
              [id |-> <<room, k, FALSE>>,
               room |-> room,
               images |-> Slice(imgs, (k - 1) * imagesPerScene, k * imagesPerScene),
               duration |-> timing.idealSegmentDuration,
               type |-> "veo"]]
  ELSE <<[id |-> <<room, 0, FALSE>>,
          room |-> room,
          images |-> imgs,
          duration |-> timing.idealSegmentDuration,
          type |-> "veo"]>>

\* createScenes that makes a scene of every bucket
SkipsGroup_never(groupImages) == FALSE
\* createScenes passes over a bucket that holds no image
SkipsGroup(groupImages) == Len(groupImages) = 0

RECURSIVE createScenes(_, _)
createScenes(groups, timing) ==
  IF groups = <<>> THEN <<>>
  ELSE (IF SkipsGroup(groups[1][2]) THEN <<>>
        ELSE createRoomScenes(groups[1][1], groups[1][2], timing))
       \o createScenes(Tail(groups), timing)

\* veoPriority.indexOf(room), 999 when absent
PriorityOf(room) ==
  LET i == IndexOf(veoPriority, room) IN IF i = 0 THEN 999 ELSE i - 1

\* the scenes left in the order createScenes made them
SortByVeoPriority_unsorted(scenes) == scenes
\* [...scenes].sort by veoPriority.indexOf(room), 999 for a room not in it
SortByVeoPriority(scenes) ==
  LET keyed == [i \in 1..Len(scenes) |-> <<PriorityOf(scenes[i].room), scenes[i]>>]
      sorted == StableSort(keyed)
  IN  [i \in 1..Len(sorted) |-> sorted[i][2]]

\* the first pass with the cap test off by one (<= instead of <)
AssignTechniques_offByOne(sorted, maxVeoSegments, preferVeoOverKenBurns) ==
  [i \in 1..Len(sorted) |->
     IF i - 1 <= maxVeoSegments /\ preferVeoOverKenBurns
     THEN [sorted[i] EXCEPT !.type = "veo"]
     ELSE [sorted[i] EXCEPT !.type = "kenburns",
                            !.duration = RMin(sorted[i].duration, RInt(6))]]

\* first pass of optimizeScenes: the first maxVeoSegments scenes keep 'veo',
\* the others become 'kenburns' with their duration capped at 6
AssignTechniques(sorted, maxVeoSegments, preferVeoOverKenBurns) ==
  [i \in 1..Len(sorted) |->
     IF i - 1 < maxVeoSegments /\ preferVeoOverKenBurns
     THEN [sorted[i] EXCEPT !.type = "veo"]
     ELSE [sorted[i] EXCEPT !.type = "kenburns",
                            !.duration = RMin(sorted[i].duration, RInt(6))]]

SumDurations(scenes) == RSum([i \in 1..Len(scenes) |-> scenes[i].duration])

adjustSceneDurations(scenes, targetDuration) ==
  LET currentDuration == SumDurations(scenes)
  IN  [i \in 1..Len(scenes) |->
         LET newDuration == RMul(scenes[i].duration, RDiv(targetDuration, currentDuration))
         IN  IF scenes[i].type = "veo"
             THEN [scenes[i] EXCEPT !.duration = RMax(RInt(4), RMin(RInt(8), newDuration))]
             ELSE [scenes[i] EXCEPT !.duration = RMax(RInt(3), RMin(RInt(10), newDuration))]]

\* the duration of a filler that covers all of the missing time
FillerDuration_uncapped(additionalTime) == additionalTime
\* Math.min(additionalTime, 6)
FillerDuration(additionalTime) == RMin(additionalTime, RInt(6))

addFillerScenes(scenes, additionalTime) ==
  LET scenesWithMultipleImages == SelectSeq(scenes, LAMBDA sc : Len(sc.images) > 1)
  IN  IF Len(scenesWithMultipleImages) > 0 /\ RLt(RInt(3), additionalTime)
      THEN LET sourceScene == scenesWithMultipleImages[1]
           IN  Append(scenes,
                      [id |-> <<sourceScene.id[1], sourceScene.id[2], TRUE>>,
                       room |-> sourceScene.room,
                       images |-> <<sourceScene.images[Len(sourceScene.images)]>>,
                       duration |-> FillerDuration(additionalTime),
                       type |-> "kenburns"])
      ELSE scenes

\* totalDuration is summed in the first pass and not recomputed after the
\* second pass; the third pass compares and subtracts that first-pass sum
optimizeScenes(scenes, timing, preferVeoOverKenBurns) ==
  LET firstPass == AssignTechniques(SortByVeoPriority(scenes), timing.maxVeoSegments,
                                    preferVeoOverKenBurns)
      totalDuration == SumDurations(firstPass)
      secondPass == IF totalDuration # timing.availableContentTime
                    THEN adjustSceneDurations(firstPass, timing.availableContentTime)
                    ELSE firstPass
  IN  IF RLt(totalDuration, RMul(timing.availableContentTime, Rat(19, 20)))
      THEN addFillerScenes(secondPass, RSub(timing.availableContentTime, totalDuration))
      ELSE secondPass

buildScenePlan(scenes) ==
  [scenes |-> scenes,
   totalDuration |-> SumDurations(scenes),
   veoSegments |-> Len(SelectSeq(scenes, LAMBDA sc : sc.type = "veo")),
   kenBurnsSegments |-> Len(SelectSeq(scenes, LAMBDA sc : sc.type = "kenburns"))]

\* roomGroups.size: the entries of the map, an empty bucket included
MapSize(groups) == Len(groups)

\* the timing planScenes computes for the buckets of the images
TimingOf(imgs, targetSeconds, opts) ==
  calculateTiming(targetSeconds, MapSize(groupImagesByRoom(imgs)), opts.maxVeoSegments)

planScenes(imgs, targetSeconds, opts) ==
  LET roomGroups == groupImagesByRoom(imgs)
      timing == TimingOf(imgs, targetSeconds, opts)
      scenes == createScenes(roomGroups, timing)
  IN  buildScenePlan(optimizeScenes(scenes, timing, opts.preferVeoOverKenBurns))

(***************************************************************************)
(* State                                                                   *)
(***************************************************************************)
VARIABLES
  images,         \* the ImageInput[] handed to the planner / ingested by the tour
  targetSeconds,  \* outputConfig.targetSeconds
  options,        \* ScenePlanner.options
  plan,           \* the ScenePlan planScenes returned
  planPc,         \* "call" before planScenes ran, "returned" after
  clipPc,         \* what VeoClient.generateClip awaits: "idle", "auth", "submit",
                  \* "poll", "delay", "download", "extract", "returned", "threw"
  submitCount,    \* predictLongRunning requests issued by this generateClip
  attempts,       \* pollOperation's attempts
  pollCount,      \* fetchPredictOperation requests issued by this pollOperation
  downloads,      \* downloadFromGcs calls of this generateClip
  extractions,    \* extractLastFrame calls of this generateClip
  lastOp,         \* the last status response: response.ok and its VeoOperation
  lastDelay,      \* the last delay(baseDelay + jitter) of this pollOperation
  videoGcsUri,    \* where processResult took the URI it downloads from
  clipError,      \* the Error generateClip threw
  job,            \* the JobStatus entry of activeJobs
  tourPc,         \* what makeHomeTour awaits
  segIndex,       \* i of the loop of generateVideoSegments
  videoSegments,  \* videoSegments of generateVideoSegments
  assembleCalls,  \* VideoAssembler.assembleVideo calls
  outputProduced, \* config.output.path was written
  tourError,      \* the error makeHomeTour threw
  tmpDir,         \* whether context.tmpDir is on disk
  musicConfig, kenBurns,    \* config.music as generateAudioTracks reads it
  asmPc,          \* what VideoAssembler.assembleVideo awaits
  asmSegments,    \* params.segments
  audioTracks,    \* params.audioTracks
  tempFiles,      \* the temporary files of the assembler that are on disk
  manifest,       \* the lines of concat_list.txt as last written
  processes,      \* the ffmpeg commands started by this assembleVideo
  asmError,       \* the error assembleVideo rejects with
  asmCleanups,    \* this.cleanup calls of this assembleVideo
  asmOutput,      \* params.outputPath was written
  xfade,          \* arguments and offsets of buildCrossfadeFilter
  activeJobs,     \* the job-status map: job id -> its JobStatus object (0: none)
  jobObjects,     \* the JobStatus objects created, each with its processing task
  apiLog          \* the last call of the job API and the writers of each object

planVars == <<images, targetSeconds, options, plan, planPc>>
clipVars == <<clipPc, submitCount, attempts, pollCount, downloads, extractions,
              lastOp, lastDelay, videoGcsUri, clipError>>
tourVars == <<job, tourPc, segIndex, videoSegments, assembleCalls, outputProduced,
              tourError>>
asmVars == <<asmPc, asmSegments, audioTracks, tempFiles, manifest, processes, asmError,
             asmCleanups, asmOutput, xfade>>
queueVars == <<activeJobs, jobObjects, apiLog>>
vars == <<planVars, clipVars, tourVars, tmpDir, musicConfig, kenBurns, asmVars, queueVars>>

NoPlan == [scenes |-> <<>>, totalDuration |-> RInt(0), veoSegments |-> 0,
           kenBurnsSegments |-> 0]

\* an ImageInput: its position in the input list identifies the file
\* and num is the number its filename carries ("7e5f5_12.jpg" -> 12)
Image(i, room) == [id |-> i, room |-> room, num |-> i]

\* new ScenePlanner(context) : the defaults of the constructor
DefaultOptions == [maxVeoSegments |-> 15, preferVeoOverKenBurns |-> TRUE]

\* the scenario of 14 images spread over the 7 known rooms
\* one room of 46 images, which is split into 16 scenes: one more than the
\* default cap of 15 veo scenes
LargeRoomImages == [i \in 1..46 |-> Image(i, "living")]

FourteenImages == [i \in 1..14 |-> Image(i, roomOrder[((i - 1) % 7) + 1])]

\* the 0 a number starts from, as a rational
NoDelay == [base |-> RInt(0), jitter |-> 0]
NoOp == [ok |-> TRUE, done |-> FALSE, error |-> "none", videos |-> "absent",
         predictions |-> "absent"]
NoError == [kind |-> "none", detail |-> "none"]
\* config.music is absent; otherwise its volume may be unset and its file may
\* be missing
NoMusic == [present |-> FALSE, volumeSet |-> FALSE, volume |-> RInt(0), exists |-> FALSE]

NoJob == [status |-> "absent", progress |-> RInt(0), phase |-> "none",
          error |-> NoError, result |-> FALSE]

\* no generateClip call is in progress
ClipIdle ==
  /\ clipPc = "idle"
  /\ submitCount = 0
  /\ attempts = 0
  /\ pollCount = 0
  /\ downloads = 0
  /\ extractions = 0
  /\ lastOp = NoOp
  /\ lastDelay = NoDelay
  /\ videoGcsUri = "none"
  /\ clipError = NoError

\* activeJobs is empty and no makeHomeTour call is in progress
TourIdle ==
  /\ job = NoJob
  /\ tourPc = "idle"
  /\ segIndex = 0
  /\ videoSegments = <<>>
  /\ assembleCalls = 0
  /\ outputProduced = FALSE
  /\ tourError = NoError
  /\ musicConfig = NoMusic

\* the job ids of the callers and the number of JobStatus objects created
JobIds == {"j1", "j2"}
MaxJobObjects == 3

NoCall == [call |-> "none", id |-> "none", returned |-> "none", writes |-> {}]

\* activeJobs is empty and the job API was not called
\* a JavaScript number: NaN, an infinity, or a finite value
NaN == [kind |-> "nan", value |-> 0]
Infinity == [kind |-> "inf", value |-> 0]
MinusInfinity == [kind |-> "-inf", value |-> 0]
Finite(v) == [kind |-> "finite", value |-> v]

\* no generateKenBurns call was made
NoKenBurns == [pc |-> "idle", imageExists |-> FALSE, duration |-> NaN, width |-> NaN,
               height |-> NaN, fps |-> NaN, progress |-> 0, processes |-> <<>>,
               error |-> [class |-> "none", message |-> "none"]]
KenBurnsIdle == kenBurns = NoKenBurns

QueueIdle ==
  /\ activeJobs = [id \in JobIds |-> 0]
  /\ jobObjects = <<>>
  /\ apiLog = NoCall

NoXfade == [segments |-> <<>>, crossfadeDuration |-> RInt(0), offsets |-> <<>>,
            called |-> FALSE]

\* no assembleVideo call is in progress and none was made
AsmIdle ==
  /\ asmPc = "idle"
  /\ asmSegments = <<>>
  /\ audioTracks = <<>>
  /\ tempFiles = {}
  /\ manifest = <<>>
  /\ processes = <<>>
  /\ asmError = "none"
  /\ asmCleanups = 0
  /\ asmOutput = FALSE
  /\ xfade = NoXfade

InitPlan ==
  /\ \/ /\ \E n \in 0..MaxImages : \E rooms \in [1..n -> InputRooms] :
              images = [i \in 1..n |-> Image(i, rooms[i])]
        /\ targetSeconds \in TargetChoices
        /\ \E cap \in VeoCapChoices, prefer \in PreferVeoChoices :
              options = [maxVeoSegments |-> cap, preferVeoOverKenBurns |-> prefer]
     \/ /\ images = FourteenImages
        /\ targetSeconds = 90
        /\ options = DefaultOptions
     \/ /\ images = LargeRoomImages
        /\ targetSeconds \in {90, 200}
        /\ options = DefaultOptions
  /\ plan = NoPlan
  /\ planPc = "call"
  /\ ClipIdle
  /\ TourIdle
  /\ QueueIdle
  /\ KenBurnsIdle
  /\ tmpDir = "absent"
  /\ AsmIdle

\* ScenePlanner.planScenes(images, outputConfig)
PlanScenes ==
  /\ planPc = "call"
  /\ plan' = planScenes(images, targetSeconds, options)
  /\ planPc' = "returned"
  /\ UNCHANGED <<images, targetSeconds, options, clipVars, tourVars>>
  /\ UNCHANGED <<tmpDir, musicConfig, kenBurns, asmVars, queueVars>>

NextPlan == PlanScenes

SpecPlan == InitPlan /\ [][NextPlan]_vars

(***************************************************************************)
(* Veo render job, src/pipeline/veo.ts (VeoClient)                         *)
(***************************************************************************)
\* pollOperation(operationName, token, maxAttempts = 60)
maxAttempts == 60

\* values Math.random() * 1000 takes in the model (milliseconds, in [0, 1000))
JitterChoices == {0, 999}
\* error.message values of the service
ServiceMessages == {"m1", "m2"}
\* what a failed submission's status text says
SubmitErrorClasses == {"quota", "permission", "invalid", "transient"}
\* shapes of operation.response: videos[0] absent / with gcsUri / without,
\* predictions[0] absent / with videoUri / with video.gcsUri / with neither
VideosShapes == {"absent", "uri", "nouri"}
PredictionsShapes == {"absent", "videoUri", "gcsUri", "nouri"}

\* the largest exponent the model raises 3 to (3^13 < 2^31 / 1000)
MaxExactExponent == 13

\* 1.5^k >= 30, i.e. 1000 * 1.5^k reaches the cap of 30000: 1.5^k grows
\* with k, so it is so when it is so for some j <= k, and the least such j is
\* within MaxExactExponent
PowReachesCap(k) == \E j \in 0..Min(k, MaxExactExponent) : 3^j >= 30 * 2^j

\* the base delay capped at 60000 instead of 30000
BaseDelay_cap60000(k) ==
  IF \E j \in 0..Min(k, MaxExactExponent) : 3^j >= 60 * 2^j
  THEN RInt(60000) ELSE Rat(1000 * 3^k, 2^k)

\* Math.min(1000 * Math.pow(1.5, attempts), 30000), in milliseconds
BaseDelay(k) ==
  IF PowReachesCap(k) THEN RInt(30000) ELSE Rat(1000 * 3^k, 2^k)

DelayTotal(d) == RAdd(d.base, RInt(d.jitter))

\* this.context.onProgress?.(phase, progress, message): the handler of
\* processJobAsync when the tour runs for a queued job, absent otherwise
JobProgressed(j, phase, progress) == [j EXCEPT !.phase = phase, !.progress = progress]

Report(phase, progress) ==
  IF job.status = "absent" THEN job
  ELSE JobProgressed(job, phase, progress)

\* 20 + (attempts / maxAttempts) * 60
PollProgress(a) == Rat(20 * maxAttempts + 60 * a, maxAttempts)

\* processResult that looks at the legacy predictions first
ParseResult_predictionsFirst(op) ==
  IF op.predictions # "absent"
  THEN IF op.predictions = "videoUri" THEN [ok |-> TRUE, detail |-> "predictions.videoUri"]
       ELSE IF op.predictions = "gcsUri"
            THEN [ok |-> TRUE, detail |-> "predictions.video.gcsUri"]
            ELSE [ok |-> FALSE, detail |-> "No video URI in Veo response"]
  ELSE IF op.videos # "absent"
       THEN IF op.videos = "uri" THEN [ok |-> TRUE, detail |-> "videos"]
            ELSE [ok |-> FALSE, detail |-> "No video GCS URI in Veo response"]
       ELSE [ok |-> FALSE, detail |-> "No videos or predictions in Veo response"]

\* the URI processResult takes from a done operation, or the Error it throws
ParseResult(op) ==
  IF op.videos # "absent"
  THEN IF op.videos = "uri" THEN [ok |-> TRUE, detail |-> "videos"]
       ELSE [ok |-> FALSE, detail |-> "No video GCS URI in Veo response"]
  ELSE IF op.predictions # "absent"
       THEN IF op.predictions = "videoUri" THEN [ok |-> TRUE, detail |-> "predictions.videoUri"]
            ELSE IF op.predictions = "gcsUri"
                 THEN [ok |-> TRUE, detail |-> "predictions.video.gcsUri"]
                 ELSE [ok |-> FALSE, detail |-> "No video URI in Veo response"]
       ELSE [ok |-> FALSE, detail |-> "No videos or predictions in Veo response"]

\* generateClip rejects with the Error
ClipThrows(kind, detail) ==
  /\ clipPc' = "threw"
  /\ clipError' = [kind |-> kind, detail |-> detail]

\* the class of an error generateClip rejects with: a rejected fetch hands
\* on the error of the HTTP library, every other one is `new Error(message)`
ErrorClass(err) ==
  IF err.kind \in {"SubmitNetworkError", "PollNetworkError"} THEN "FetchError"
  ELSE "Error"

\* the error thrown for a done operation with an error payload
OperationFailedError(message) == [kind |-> "Veo generation failed", detail |-> message]

\* the error thrown when the attempts are used up
OperationTimedOutError == [kind |-> "Veo operation timed out", detail |-> "none"]

\* one iteration of the while loop of pollOperation up to its fetch
StartAttempt(a) ==
  /\ attempts' = a
  /\ pollCount' = pollCount + 1
  /\ clipPc' = "poll"
  /\ job' = Report("veo", PollProgress(a))

\* auth.getClient() / getAccessToken() settle; the request is built and posted
ClipAuth ==
  /\ clipPc = "auth"
  /\ \/ /\ clipPc' = "submit"
        /\ submitCount' = submitCount + 1
        /\ job' = Report("veo", RInt(10))
        /\ UNCHANGED clipError
     \/ /\ ClipThrows("AuthError", "none")
        /\ UNCHANGED <<submitCount, job>>
  /\ UNCHANGED <<attempts, pollCount, downloads, extractions, lastOp, lastDelay, videoGcsUri>>
  /\ UNCHANGED <<planVars, tourPc, segIndex, videoSegments, assembleCalls, outputProduced,
                 tourError>>
  /\ UNCHANGED <<tmpDir, musicConfig, kenBurns, asmVars, queueVars>>

\* the loop test with <= : one iteration too many
LoopContinues_offByOne(a, max) == a <= max

\* while (attempts < maxAttempts)
LoopContinues(a, max) == a < max

\* the submission wrapped in a retry of every failure, up to 3 attempts
ClipSubmitResponse_retryAll ==
  /\ clipPc = "submit"
  /\ \/ /\ \E c \in SubmitErrorClasses :
             IF submitCount < 3
             THEN /\ submitCount' = submitCount + 1
                  /\ UNCHANGED <<clipPc, clipError>>
             ELSE /\ ClipThrows("Veo API request failed", c)
                  /\ UNCHANGED submitCount
        /\ UNCHANGED <<attempts, pollCount, job>>
     \/ /\ StartAttempt(1)
        /\ UNCHANGED <<clipError, submitCount>>
  /\ UNCHANGED <<downloads, extractions, lastOp, lastDelay, videoGcsUri>>
  /\ UNCHANGED <<planVars, tourPc, segIndex, videoSegments, assembleCalls, outputProduced,
                 tourError>>
  /\ UNCHANGED <<tmpDir, musicConfig, kenBurns, asmVars, queueVars>>

\* the predictLongRunning request settles: generateClip, veo.ts 229-249
ClipSubmitResponse ==
  /\ clipPc = "submit"
  /\ \/ \* fetch rejects
        /\ ClipThrows("SubmitNetworkError", "transient")
        /\ UNCHANGED <<attempts, pollCount, job>>
     \/ \* !response.ok
        /\ \E c \in SubmitErrorClasses : ClipThrows("Veo API request failed", c)
        /\ UNCHANGED <<attempts, pollCount, job>>
     \/ \* the operation handle is returned and pollOperation starts
        /\ IF LoopContinues(0, maxAttempts)
           THEN StartAttempt(1) /\ UNCHANGED clipError
           ELSE /\ ClipThrows("Veo operation timed out", "none")
                /\ job' = Report("veo", RInt(20))
                /\ UNCHANGED <<attempts, pollCount>>
  /\ UNCHANGED <<submitCount, downloads, extractions, lastOp, lastDelay, videoGcsUri>>
  /\ UNCHANGED <<planVars, tourPc, segIndex, videoSegments, assembleCalls, outputProduced,
                 tourError>>
  /\ UNCHANGED <<tmpDir, musicConfig, kenBurns, asmVars, queueVars>>

\* the status responses the service gives: not done; done with an error
\* (whatever else the payload carries); done with a response of some shape
PollResponses ==
  {NoOp}
  \cup {[ok |-> TRUE, done |-> TRUE, error |-> m, videos |-> v, predictions |-> "absent"] :
          m \in ServiceMessages, v \in VideosShapes}
  \cup {[ok |-> TRUE, done |-> TRUE, error |-> "none", videos |-> v, predictions |-> pr] :
          v \in VideosShapes, pr \in PredictionsShapes}

\* a done operation is taken as a result whatever its error member says
PollOutcome_ignoresError(op) == IF op.done THEN "done" ELSE "pending"

\* if (operation.done) { if (operation.error) throw ...; return operation; }
PollOutcome(op) ==
  IF op.done THEN (IF op.error # "none" THEN "failed" ELSE "done") ELSE "pending"

\* a status response whose response.ok is false: its body is not read
NotOkResponse == [NoOp EXCEPT !.ok = FALSE]

\* a non-OK status response read as an operation that is not done yet: the
\* backoff delay is waited and the loop goes on
PollNotOk_notDone ==
  /\ lastOp' = NotOkResponse
  /\ \E j \in JitterChoices :
       lastDelay' = [base |-> BaseDelay(attempts), jitter |-> j]
  /\ clipPc' = "delay"
  /\ UNCHANGED <<clipError, videoGcsUri, downloads, job>>

\* if (!response.ok) throw new Error(`Failed to poll operation: ...`)
PollNotOk ==
  /\ lastOp' = NotOkResponse
  /\ ClipThrows("Failed to poll operation", "none")
  /\ UNCHANGED <<lastDelay, videoGcsUri, downloads, job>>

\* the fetchPredictOperation request settles: pollOperation, veo.ts 275-300,
\* and for a done operation the synchronous head of processResult, 306-336
ClipPollResponse ==
  /\ clipPc = "poll"
  /\ \/ \* fetch rejects
        /\ ClipThrows("PollNetworkError", "none")
        /\ UNCHANGED <<lastOp, lastDelay, videoGcsUri, downloads, job>>
     \/ PollNotOk
     \/ \E op \in PollResponses :
          /\ lastOp' = op
          /\ CASE PollOutcome(op) = "failed" ->
                   /\ ClipThrows("Veo generation failed", op.error)
                   /\ UNCHANGED <<lastDelay, videoGcsUri, downloads, job>>
               [] PollOutcome(op) = "done" ->
                   \* processResult
                   /\ IF ParseResult(op).ok
                      THEN /\ clipPc' = "download"
                           /\ videoGcsUri' = ParseResult(op).detail
                           /\ downloads' = downloads + 1
                           /\ job' = Report("veo", RInt(85))
                           /\ UNCHANGED clipError
                      ELSE /\ ClipThrows("ResultError", ParseResult(op).detail)
                           /\ UNCHANGED <<videoGcsUri, downloads, job>>
                   /\ lastDelay' = NoDelay
               [] PollOutcome(op) = "pending" ->
                   \* delay(baseDelay + jitter)
                   /\ \E j \in JitterChoices :
                        lastDelay' = [base |-> BaseDelay(attempts), jitter |-> j]
                   /\ clipPc' = "delay"
                   /\ UNCHANGED <<clipError, videoGcsUri, downloads, job>>
  /\ UNCHANGED <<submitCount, attempts, pollCount, extractions>>
  /\ UNCHANGED <<planVars, tourPc, segIndex, videoSegments, assembleCalls, outputProduced,
                 tourError>>
  /\ UNCHANGED <<tmpDir, musicConfig, kenBurns, asmVars, queueVars>>

\* the delay elapsed: the loop test of pollOperation, veo.ts 259-263, 303
ClipDelayElapsed ==
  /\ clipPc = "delay"
  /\ IF LoopContinues(attempts, maxAttempts)
     THEN StartAttempt(attempts + 1) /\ UNCHANGED clipError
     ELSE ClipThrows("Veo operation timed out", "none") /\ UNCHANGED <<attempts, pollCount, job>>
  /\ UNCHANGED <<submitCount, downloads, extractions, lastOp, lastDelay, videoGcsUri>>
  /\ UNCHANGED <<planVars, tourPc, segIndex, videoSegments, assembleCalls, outputProduced,
                 tourError>>
  /\ UNCHANGED <<tmpDir, musicConfig, kenBurns, asmVars, queueVars>>

\* downloadFromGcs settles: processResult, veo.ts 336-341
ClipDownloadDone ==
  /\ clipPc = "download"
  /\ \/ /\ clipPc' = "extract"
        /\ extractions' = extractions + 1
        /\ job' = Report("veo", RInt(95))
        /\ UNCHANGED clipError
     \/ /\ ClipThrows("DownloadError", "none")
        /\ UNCHANGED <<extractions, job>>
  /\ UNCHANGED <<submitCount, attempts, pollCount, downloads, lastOp, lastDelay,
                 videoGcsUri>>
  /\ UNCHANGED <<planVars, tourPc, segIndex, videoSegments, assembleCalls, outputProduced,
                 tourError>>
  /\ UNCHANGED <<tmpDir, musicConfig, kenBurns, asmVars, queueVars>>

\* extractLastFrame settles: processResult, veo.ts 341-349
ClipExtractDone ==
  /\ clipPc = "extract"
  /\ \/ /\ clipPc' = "returned"
        /\ job' = Report("veo", RInt(100))
        /\ UNCHANGED clipError
     \/ /\ ClipThrows("ExtractError", "none")
        /\ UNCHANGED job
  /\ UNCHANGED <<submitCount, attempts, pollCount, downloads, extractions, lastOp,
                 lastDelay, videoGcsUri>>
  /\ UNCHANGED <<planVars, tourPc, segIndex, videoSegments, assembleCalls, outputProduced,
                 tourError>>
  /\ UNCHANGED <<tmpDir, musicConfig, kenBurns, asmVars, queueVars>>

\* a generateClip call on a VeoClient of its own (no progress handler)
InitClip ==
  /\ images = <<>>
  /\ targetSeconds = 90
  /\ options = DefaultOptions
  /\ plan = NoPlan
  /\ planPc = "call"
  /\ clipPc = "auth"
  /\ submitCount = 0
  /\ attempts = 0
  /\ pollCount = 0
  /\ downloads = 0
  /\ extractions = 0
  /\ lastOp = NoOp
  /\ lastDelay = NoDelay
  /\ videoGcsUri = "none"
  /\ clipError = NoError
  /\ TourIdle
  /\ QueueIdle
  /\ KenBurnsIdle
  /\ tmpDir = "absent"
  /\ AsmIdle

NextClip ==
  \/ ClipAuth
  \/ ClipSubmitResponse
  \/ ClipPollResponse
  \/ ClipDelayElapsed
  \/ ClipDownloadDone
  \/ ClipExtractDone

SpecClip == InitClip /\ [][NextClip]_vars

\* every request and timer of a generateClip call settles
SpecClipFair == SpecClip /\ WF_vars(NextClip)

(***************************************************************************)
(* Video assembler, src/pipeline/assemble.ts (VideoAssembler)              *)
(***************************************************************************)
MaxAsmSegments == 3

\* the AudioTrack shapes generateAudioTracks builds: the voiceover, the music
\* at its default volume, and the music ducked under a voiceover
Voiceover(exists) ==
  [path |-> "voiceover.mp3", type |-> "voiceover", volume |-> RInt(1), startTime |-> 0,
   exists |-> exists]
Music(volume, exists) ==
  [path |-> "music.mp3", type |-> "music", volume |-> volume, startTime |-> 0,
   exists |-> exists]

\* the lists of audio tracks assembleVideo is given: none, one or two
TrackLists ==
  {<<>>}
  \cup {<<Voiceover(e)>> : e \in BOOLEAN}
  \cup {<<Music(Rat(3, 10), e)>> : e \in BOOLEAN}
  \cup {<<Voiceover(e1), Music(Rat(3, 25), e2)>> : e1 \in BOOLEAN, e2 \in BOOLEAN}

\* the files the assembler writes besides params.outputPath
ConcatFile == "concat_list.txt"
TempVideo == "temp_video.mp4"
MixedAudio == "mixed_audio.mp3"

\* the variables assembleVideo does not touch, but for the job's progress
asmRest == <<planVars, clipVars, tourPc, segIndex, videoSegments, assembleCalls,
             outputProduced, tourError, tmpDir, musicConfig, kenBurns, xfade, queueVars>>

\* validateInputs without the loop over the audio tracks
validateInputs_segmentsOnly(segments, tracks) ==
  IF \E i \in 1..Len(segments) : ~segments[i].exists
  THEN "Video segment not found"
  ELSE "none"

\* validateInputs after its mkdir: the message of the error it throws
validateInputs(segments, tracks) ==
  IF \E i \in 1..Len(segments) : ~segments[i].exists
  THEN "Video segment not found"
  ELSE IF \E i \in 1..Len(tracks) : ~tracks[i].exists
       THEN "Audio track not found"
       ELSE "none"

\* an ffmpeg command: the tool step, its audio input ("" for none) and the
\* audio filters it is given
Command(tool, audio, filters) == [tool |-> tool, audio |-> audio, filters |-> filters]

\* buildAudioMixFilter: per track a volume filter unless the volume is 1 and
\* an adelay filter if the track starts late
\* and last the amix of all the chains
buildAudioMixFilter(tracks) ==
  LET chains ==
        [i \in 1..Len(tracks) |->
           [op |-> "chain",
            input |-> i - 1,
            volume |-> IF tracks[i].volume # RInt(1) THEN <<tracks[i].volume>> ELSE <<>>,
            adelay |-> IF tracks[i].startTime > 0 THEN <<1000 * tracks[i].startTime>>
                       ELSE <<>>,
            label |-> i - 1]]
  IN  Append(chains, [op |-> "amix",
                      labels |-> [i \in 1..Len(tracks) |-> i - 1],
                      inputs |-> Len(tracks),
                      duration |-> "longest"])

\* createAudioMix with fewer than two tracks mixes everything it is given
createAudioMixPath_alwaysMix(tracks) == MixedAudio

\* the path createAudioMix resolves to
createAudioMixPath(tracks) ==
  IF Len(tracks) = 0 THEN ""
  ELSE IF Len(tracks) = 1 THEN tracks[1].path
  ELSE MixedAudio

\* combineVideoAndAudio(tempVideoPath, audioPath, ...): the audio input is
\* added if audioPath is not empty, else noAudio()
CombineCommand(audioPath) == Command("combine", audioPath, <<>>)

\* the error handed on by cleanup when an unlink fails
CleanupRethrows_raises(primary, unlinkOk) ==
  IF unlinkOk THEN primary ELSE "UnlinkError"

\* cleanup catches every unlink error: assembleVideo settles as it would have
CleanupRethrows(primary, unlinkOk) == primary

\* fs.promises.unlink(name) inside try/catch: the file is gone if it worked
Unlinked(files, name, ok) == IF ok THEN files \ {name} ELSE files

\* assembleVideo(params): validateInputs, and createVideoTimeline up to its
\* first await
AssembleVideo ==
  /\ asmPc = "call"
  /\ \/ \* mkdir of the output directory rejects
        /\ asmPc' = "threw"
        /\ asmError' = "MkdirError"
        /\ UNCHANGED <<processes, job>>
     \/ /\ validateInputs(asmSegments, audioTracks) # "none"
        /\ asmPc' = "threw"
        /\ asmError' = validateInputs(asmSegments, audioTracks)
        /\ job' = Report("assembly", RInt(0))
        /\ UNCHANGED processes
     \/ /\ validateInputs(asmSegments, audioTracks) = "none"
        /\ UNCHANGED asmError
        /\ job' = Report("assembly", RInt(10))
        /\ IF Len(asmSegments) = 1
           THEN \* processSingleSegment starts ffmpeg on the segment
                /\ processes' = Append(processes, Command("single", "", <<>>))
                /\ asmPc' = "timeline"
           ELSE \* createConcatFileApproach awaits writeFile
                /\ asmPc' = "manifest"
                /\ UNCHANGED processes
  /\ UNCHANGED <<asmSegments, audioTracks, tempFiles, manifest, asmCleanups, asmOutput>>
  /\ UNCHANGED asmRest

\* writeFile(concat_list.txt) settles; on success ffmpeg is started on it
AssembleManifestWritten ==
  /\ asmPc = "manifest"
  /\ \/ /\ tempFiles' = tempFiles \cup {ConcatFile}
        /\ manifest' = [i \in 1..Len(asmSegments) |-> asmSegments[i].image]
        /\ processes' = Append(processes, Command("concat", "", <<>>))
        /\ asmPc' = "timeline"
        /\ UNCHANGED asmError
     \/ /\ asmError' = "WriteError"
        /\ asmPc' = "cleanup"
        /\ UNCHANGED <<tempFiles, manifest, processes>>
  /\ UNCHANGED <<asmSegments, audioTracks, asmCleanups, asmOutput, job>>
  /\ UNCHANGED asmRest

\* the timeline ffmpeg ends or fails: the concat handlers unlink the list,
\* then createAudioMix runs and either the mix or the combine step starts
AssembleTimelineDone ==
  /\ asmPc = "timeline"
  /\ \E unlinkOk \in BOOLEAN :
       LET kept == IF Len(asmSegments) = 1 THEN tempFiles
                   ELSE Unlinked(tempFiles, ConcatFile, unlinkOk)
       IN  \/ /\ tempFiles' = kept \cup {TempVideo}
              /\ UNCHANGED asmError
              /\ IF Len(audioTracks) >= 2
                 THEN /\ processes' = Append(processes,
                             Command("mix", "", buildAudioMixFilter(audioTracks)))
                      /\ job' = Report("assembly", RInt(60))
                      /\ asmPc' = "mix"
                 ELSE /\ processes' = Append(processes,
                             CombineCommand(createAudioMixPath(audioTracks)))
                      /\ job' = Report("assembly", RInt(85))
                      /\ asmPc' = "combine"
           \/ \* a failed run may leave a partial file
              /\ \E partial \in BOOLEAN :
                    tempFiles' = IF partial THEN kept \cup {TempVideo} ELSE kept
              /\ asmError' = "TimelineError"
              /\ asmPc' = "cleanup"
              /\ UNCHANGED <<processes, job>>
  /\ UNCHANGED <<asmSegments, audioTracks, manifest, asmCleanups, asmOutput>>
  /\ UNCHANGED asmRest

\* the mixing ffmpeg ends or fails
AssembleMixDone ==
  /\ asmPc = "mix"
  /\ \/ /\ tempFiles' = tempFiles \cup {MixedAudio}
        /\ processes' = Append(processes, CombineCommand(createAudioMixPath(audioTracks)))
        /\ job' = Report("assembly", RInt(85))
        /\ asmPc' = "combine"
        /\ UNCHANGED asmError
     \/ /\ \E partial \in BOOLEAN :
              tempFiles' = IF partial THEN tempFiles \cup {MixedAudio} ELSE tempFiles
        /\ asmError' = "MixError"
        /\ asmPc' = "cleanup"
        /\ UNCHANGED <<processes, job>>
  /\ UNCHANGED <<asmSegments, audioTracks, manifest, asmCleanups, asmOutput>>
  /\ UNCHANGED asmRest

\* the combining ffmpeg ends or fails
AssembleCombineDone ==
  /\ asmPc = "combine"
  /\ \/ /\ asmOutput' = TRUE
        /\ job' = Report("assembly", RInt(100))
        /\ UNCHANGED asmError
     \/ /\ asmOutput' \in BOOLEAN
        /\ asmError' = "CombineError"
        /\ UNCHANGED job
  /\ asmPc' = "cleanup"
  /\ UNCHANGED <<asmSegments, audioTracks, tempFiles, manifest, processes, asmCleanups>>
  /\ UNCHANGED asmRest

\* finally: cleanup([concatListPath, tempVideoPath]); concatListPath
\* (concat_<time>.txt) is a file nothing writes
AssembleCleanup ==
  /\ asmPc = "cleanup"
  /\ \E unlinkOk \in BOOLEAN :
        /\ tempFiles' = Unlinked(tempFiles, TempVideo, unlinkOk)
        /\ asmError' = CleanupRethrows(asmError, unlinkOk \/ TempVideo \notin tempFiles)
  /\ asmCleanups' = asmCleanups + 1
  /\ asmPc' = IF asmError' = "none" THEN "returned" ELSE "threw"
  /\ UNCHANGED <<asmSegments, audioTracks, manifest, processes, asmOutput, job>>
  /\ UNCHANGED asmRest

\* an assembleVideo call on up to MaxAsmSegments segments of 4 seconds and
\* up to two audio tracks, any of the files missing
InitAssemble ==
  /\ images = <<>>
  /\ targetSeconds = 90
  /\ options = DefaultOptions
  /\ plan = NoPlan
  /\ planPc = "call"
  /\ ClipIdle
  /\ TourIdle
  /\ QueueIdle
  /\ KenBurnsIdle
  /\ tmpDir = "present"
  /\ asmPc = "call"
  /\ \E n \in 0..MaxAsmSegments : \E present \in [1..n -> BOOLEAN] :
        asmSegments = [i \in 1..n |-> [image |-> i, duration |-> 4, exists |-> present[i]]]
  /\ audioTracks \in TrackLists
  /\ tempFiles = {}
  /\ manifest = <<>>
  /\ processes = <<>>
  /\ asmError = "none"
  /\ asmCleanups = 0
  /\ asmOutput = FALSE
  /\ xfade = NoXfade

NextAssemble ==
  \/ AssembleVideo
  \/ AssembleManifestWritten
  \/ AssembleTimelineDone
  \/ AssembleMixDone
  \/ AssembleCombineDone
  \/ AssembleCleanup

SpecAssemble == InitAssemble /\ [][NextAssemble]_vars

(***************************************************************************)
(* Crossfade filter, VideoAssembler.buildCrossfadeFilter                   *)
(***************************************************************************)
MaxXfadeSegments == 3

\* segment durations and crossfade durations buildCrossfadeFilter is given,
\* in seconds: segments shorter than, equal to and longer than a crossfade
XfadeDurations == {RInt(0), Rat(1, 2), Rat(3, 4), RInt(4), RInt(8)}
XfadeCrossfades == {RInt(0), Rat(3, 4), RInt(5)}

\* the offset taken as the difference, without Math.max(0, .)
CrossfadeOffset_noClamp(segmentDuration, crossfade) == RSub(segmentDuration, crossfade)

\* Math.max(0, segmentDuration - crossfadeDuration)
CrossfadeOffset(segmentDuration, crossfade) ==
  RMax(RInt(0), RSub(segmentDuration, crossfade))

\* buildCrossfadeFilter(segments, crossfadeDuration): a scale filter per
\* segment, an xfade filter per pair of consecutive segments, and the copy
\* of the last label to final_video
buildCrossfadeFilter(segments, crossfade) ==
  [scales |-> [i \in 1..Len(segments) |-> <<"v", i - 1>>],
   xfades |-> [i \in 1..(Len(segments) - 1) |->
                 [inputA |-> IF i = 1 THEN <<"v", 0>> ELSE <<"xfade", i - 2>>,
                  inputB |-> <<"v", i>>,
                  duration |-> crossfade,
                  offset |-> CrossfadeOffset(segments[i].duration, crossfade),
                  output |-> <<"xfade", i - 1>>]],
   final |-> IF Len(segments) > 1 THEN <<"xfade", Len(segments) - 2>> ELSE <<"v", 0>>]

\* a call of buildCrossfadeFilter
BuildCrossfadeFilter ==
  /\ ~xfade.called
  /\ xfade' = [xfade EXCEPT
                 !.offsets = buildCrossfadeFilter(xfade.segments,
                                                  xfade.crossfadeDuration).xfades,
                 !.called = TRUE]
  /\ UNCHANGED <<planVars, clipVars, tourVars, tmpDir, asmPc, asmSegments, audioTracks,
                 tempFiles, manifest, processes, asmError, asmCleanups, asmOutput,
                 musicConfig, kenBurns, queueVars>>

\* up to MaxXfadeSegments segments and a crossfade duration >= 0
InitCrossfade ==
  /\ images = <<>>
  /\ targetSeconds = 90
  /\ options = DefaultOptions
  /\ plan = NoPlan
  /\ planPc = "call"
  /\ ClipIdle
  /\ TourIdle
  /\ QueueIdle
  /\ KenBurnsIdle
  /\ tmpDir = "absent"
  /\ asmPc = "idle"
  /\ asmSegments = <<>>
  /\ audioTracks = <<>>
  /\ tempFiles = {}
  /\ manifest = <<>>
  /\ processes = <<>>
  /\ asmError = "none"
  /\ asmCleanups = 0
  /\ asmOutput = FALSE
  /\ \E n \in 0..MaxXfadeSegments : \E ds \in [1..n -> XfadeDurations] :
        \E cf \in XfadeCrossfades :
          xfade = [segments |-> [i \in 1..n |-> [duration |-> ds[i]]],
                   crossfadeDuration |-> cf, offsets |-> <<>>, called |-> FALSE]

NextCrossfade == BuildCrossfadeFilter

SpecCrossfade == InitCrossfade /\ [][NextCrossfade]_vars

(***************************************************************************)
(* Tour pipeline and job queue, src/index.ts                               *)
(***************************************************************************)
MaxTourImages == 3
\* targetSeconds of the tours of the model
TourTargetSeconds == 30
ShortTourSeconds == 6

\* the images taken in input order, without the sort
SortedImages_unsorted(imgs) == imgs

\* [...images].sort((a, b) => numA - numB)
SortedImages(imgs) ==
  LET keyed == [i \in 1..Len(imgs) |-> <<imgs[i].num, imgs[i]>>]
      sorted == StableSort(keyed)
  IN  [i \in 1..Len(sorted) |-> sorted[i][2]]

\* ('segments', 25 + (i / sortedImages.length) * 35)
SegmentProgress(i, n) == Rat(25 * n + 35 * i, n)

\* generateVeoSegment(singleImageScene, [singleImageScene], i, ...) evaluates
\* allScenes[sceneIndex - 1].room for sceneIndex > 0, allScenes holding one
\* scene: a TypeError for every sceneIndex but 0 and 1
PromptThrows_never(sceneIndex, allScenesLength) == FALSE

PromptThrows(sceneIndex, allScenesLength) ==
  sceneIndex > 0 /\ sceneIndex - 1 >= allScenesLength

\* the VideoSegment generateVeoSegment returns for the i-th sorted image:
\* duration Math.min(4, Math.round(scene.duration)) of a 4 second scene
SegmentOf(image) ==
  [image |-> image.id, duration |-> Min(4, 4), type |-> "veo", room |-> "home"]

\* makeHomeTour rejects with err inside its try block: the catch awaits
\* cleanupTempDirectory before it rethrows
TourCatches(err) ==
  /\ tourPc' = "cleanup"
  /\ tourError' = err

\* queueHomeTourGeneration(config): the entry is created 'pending' and
\* processJobAsync runs up to the first await of makeHomeTour (mkdir) before
\* the call returns
QueueHomeTourGeneration ==
  /\ tourPc = "idle"
  /\ job.status = "absent"
  /\ job' = [status |-> "processing", progress |-> RInt(0), phase |-> "starting",
             error |-> NoError, result |-> FALSE]
  /\ tourPc' = "mkdir"
  /\ UNCHANGED <<planVars, clipVars, segIndex, videoSegments, assembleCalls,
                 outputProduced, tourError>>
  /\ UNCHANGED <<tmpDir, musicConfig, kenBurns, asmVars, queueVars>>

\* the status is written and the other fields are left for later
JobCompleted_statusOnly(j) == [j EXCEPT !.status = "completed"]

\* processJobAsync after makeHomeTour returned: status, progress, phase
\* and result are written with no await in between
JobCompleted(j) ==
  [j EXCEPT !.status = "completed", !.progress = RInt(100), !.phase = "completed",
            !.result = TRUE]

\* processJobAsync's catch: status 'failed', error = error.message
JobFailed(j, err) == [j EXCEPT !.status = "failed", !.error = err]

\* fs.promises.mkdir(tmpDir) settles; on success ingestImages starts
TourMkdir ==
  /\ tourPc = "mkdir"
  /\ \/ /\ tourPc' = "ingest"
        /\ tmpDir' = "present"
        /\ job' = Report("ingest", IF Len(images) > 0 THEN RInt(0) ELSE RInt(100))
        /\ UNCHANGED tourError
     \/ \* mkdir is outside the try block: no cleanup
        /\ tourPc' = "threw"
        /\ tourError' = [kind |-> "MkdirError", detail |-> "none"]
        /\ job' = JobFailed(job, [kind |-> "MkdirError", detail |-> "none"])
        /\ UNCHANGED tmpDir
  /\ UNCHANGED <<planVars, clipVars, segIndex, videoSegments, assembleCalls, outputProduced>>
  /\ UNCHANGED <<musicConfig, kenBurns, asmVars, queueVars>>

\* ingestImages settles (it does not throw), planScenes runs, and
\* generateVideoSegments runs up to its first await
TourIngest ==
  /\ tourPc = "ingest"
  /\ plan' = planScenes(images, targetSeconds, DefaultOptions)
  /\ planPc' = "returned"
  /\ segIndex' = 0
  /\ IF Len(images) > 0
     THEN /\ tourPc' = "upload"
          /\ job' = Report("segments", SegmentProgress(0, Len(images)))
     ELSE /\ tourPc' = "audio"
          /\ job' = Report("pipeline", RInt(60))
  /\ UNCHANGED <<images, targetSeconds, options, clipVars, videoSegments, assembleCalls,
                 outputProduced, tourError>>
  /\ UNCHANGED <<tmpDir, musicConfig, kenBurns, asmVars, queueVars>>

\* uploadToGcs settles; the prompt is built and generateClip is called
TourUpload ==
  /\ tourPc = "upload"
  /\ \/ /\ ~PromptThrows(segIndex, 1)
        /\ tourPc' = "clip"
        /\ clipPc' = "auth"
        /\ job' = Report("veo", RInt(0))
        /\ UNCHANGED tourError
     \/ /\ PromptThrows(segIndex, 1)
        /\ TourCatches([kind |-> "TypeError", detail |-> "allScenes[sceneIndex - 1]"])
        /\ UNCHANGED <<clipPc, job>>
     \/ /\ TourCatches([kind |-> "UploadError", detail |-> "none"])
        /\ UNCHANGED <<clipPc, job>>
  /\ UNCHANGED <<planVars, submitCount, attempts, pollCount, downloads, extractions,
                 lastOp, lastDelay, videoGcsUri, clipError, segIndex, videoSegments,
                 assembleCalls,
                 outputProduced>>
  /\ UNCHANGED <<tmpDir, musicConfig, kenBurns, asmVars, queueVars>>

\* the loop goes on as soon as the job is submitted, not awaiting it
JobSettled_afterSubmit == clipPc \in {"poll", "delay", "returned"}

\* await generateVeoSegment(...): the promise of generateClip is fulfilled
JobSettled == clipPc = "returned"

\* generateClip returned: the segment is pushed and the loop goes on
TourSegmentDone ==
  /\ tourPc = "clip"
  /\ JobSettled
  /\ videoSegments' = Append(videoSegments, SegmentOf(SortedImages(images)[segIndex + 1]))
  /\ IF segIndex + 1 < Len(images)
     THEN /\ segIndex' = segIndex + 1
          /\ tourPc' = "upload"
          /\ job' = Report("segments", SegmentProgress(segIndex + 1, Len(images)))
     ELSE /\ tourPc' = "audio"
          /\ job' = Report("pipeline", RInt(60))
          /\ UNCHANGED segIndex
  \* the locals of the generateClip call are gone
  /\ clipPc' = "idle"
  /\ submitCount' = 0
  /\ attempts' = 0
  /\ pollCount' = 0
  /\ downloads' = 0
  /\ extractions' = 0
  /\ lastOp' = NoOp
  /\ lastDelay' = NoDelay
  /\ videoGcsUri' = "none"
  /\ clipError' = NoError
  /\ UNCHANGED <<planVars, assembleCalls, outputProduced, tourError>>
  /\ UNCHANGED <<tmpDir, musicConfig, kenBurns, asmVars, queueVars>>

\* the catch of the loop logs the error and goes on without the segment
TourSegmentFailed_continues ==
  /\ tourPc = "clip"
  /\ clipPc = "threw"
  /\ tourPc' = "audio"
  /\ job' = Report("pipeline", RInt(60))
  /\ UNCHANGED <<planVars, clipVars, segIndex, videoSegments, assembleCalls,
                 outputProduced, tourError>>
  /\ UNCHANGED <<tmpDir, musicConfig, kenBurns, asmVars, queueVars>>

\* generateClip threw: generateVideoSegments rethrows
TourSegmentFailed ==
  /\ tourPc = "clip"
  /\ clipPc = "threw"
  /\ TourCatches(clipError)
  /\ UNCHANGED <<planVars, clipVars, job, segIndex, videoSegments, assembleCalls,
                 outputProduced>>
  /\ UNCHANGED <<tmpDir, musicConfig, kenBurns, asmVars, queueVars>>

\* the values of config.music.volume, and config.music: absent, or a path
\* whose file may be missing with a volume that may be unset
MusicVolumes == {RInt(0), Rat(3, 10), Rat(1, 2), RInt(1)}
MusicConfigs ==
  {NoMusic} \cup
  {[present |-> TRUE, volumeSet |-> FALSE, volume |-> RInt(0), exists |-> e] :
     e \in BOOLEAN} \cup
  {[present |-> TRUE, volumeSet |-> TRUE, volume |-> v, exists |-> e] :
     v \in MusicVolumes, e \in BOOLEAN}

\* config.music.volume || 0.3: an unset volume and a volume of 0 are both
\* falsy and give the default
MusicVolumeOf(music) ==
  IF music.volumeSet /\ music.volume # RInt(0) THEN music.volume ELSE Rat(3, 10)

\* generateAudioTracks: the voiceover if there is a script, then the music
\* if config.music is set, at its volume or ducked to 0.4 of it under a
\* voiceover
generateAudioTracks(hasScript, music) ==
  LET voice == IF hasScript THEN <<Voiceover(TRUE)>> ELSE <<>>
      musicVolume == MusicVolumeOf(music)
      duckingVolume == IF Len(voice) > 0 THEN RMul(musicVolume, Rat(2, 5)) ELSE musicVolume
  IN  IF music.present THEN Append(voice, Music(duckingVolume, music.exists)) ELSE voice

\* generateAudioTracks settles; on success assembleVideo is called with the
\* video segments and the audio tracks
TourAudio ==
  /\ tourPc = "audio"
  /\ \/ /\ tourPc' = "assemble"
        /\ assembleCalls' = assembleCalls + 1
        /\ job' = Report("pipeline", RInt(80))
        /\ \E hasScript \in BOOLEAN, music \in MusicConfigs :
              /\ musicConfig' = music
              /\ audioTracks' = generateAudioTracks(hasScript, music)
        /\ asmSegments' = [i \in 1..Len(videoSegments) |->
                             [image |-> videoSegments[i].image,
                              duration |-> videoSegments[i].duration,
                              exists |-> TRUE]]
        /\ asmPc' = "call"
        /\ UNCHANGED tourError
     \/ /\ TourCatches([kind |-> "TTSError", detail |-> "none"])
        /\ UNCHANGED <<assembleCalls, job, musicConfig, audioTracks, asmSegments, asmPc>>
  /\ UNCHANGED <<planVars, clipVars, segIndex, videoSegments, outputProduced>>
  /\ UNCHANGED <<tmpDir, kenBurns, tempFiles, manifest, processes, asmError, asmCleanups,
                 asmOutput, xfade, queueVars>>

\* assembler.assembleVideo settles; on success applyBranding is called
TourAssemble ==
  /\ tourPc = "assemble"
  /\ \/ /\ asmPc = "returned"
        /\ tourPc' = "branding"
        /\ job' = Report("pipeline", RInt(90))
        /\ UNCHANGED tourError
     \/ /\ asmPc = "threw"
        /\ TourCatches([kind |-> "AssemblyError", detail |-> asmError])
        /\ UNCHANGED job
  /\ UNCHANGED <<planVars, clipVars, segIndex, videoSegments, assembleCalls, outputProduced>>
  /\ UNCHANGED <<tmpDir, musicConfig, kenBurns, asmVars, queueVars>>

\* applyBranding settles; on success makeHomeTour returns its result and
\* processJobAsync marks the job completed
TourBranding ==
  /\ tourPc = "branding"
  /\ \/ /\ tourPc' = "returned"
        /\ outputProduced' = TRUE
        /\ job' = IF job.status = "absent" THEN job ELSE JobCompleted(job)
        /\ UNCHANGED tourError
     \/ \* a failed copy or overlay run may leave a file behind
        /\ TourCatches([kind |-> "BrandingError", detail |-> "none"])
        /\ outputProduced' \in BOOLEAN
        /\ UNCHANGED job
  /\ UNCHANGED <<planVars, clipVars, segIndex, videoSegments, assembleCalls>>
  /\ UNCHANGED <<tmpDir, musicConfig, kenBurns, asmVars, queueVars>>

\* cleanupTempDirectory settles (it swallows the error of a failed rm);
\* makeHomeTour rethrows and processJobAsync's catch marks the job failed
TourCleanup ==
  /\ tourPc = "cleanup"
  /\ tourPc' = "threw"
  /\ \E rmOk \in BOOLEAN : tmpDir' = IF rmOk THEN "absent" ELSE "present"
  /\ job' = IF job.status = "absent" THEN job ELSE JobFailed(job, tourError)
  /\ UNCHANGED <<planVars, clipVars, segIndex, videoSegments, assembleCalls,
                 outputProduced, tourError>>
  /\ UNCHANGED <<musicConfig, kenBurns, asmVars, queueVars>>

\* one image more than the planner's default cap on Veo scenes, spread over
\* the known rooms and numbered in input order
ManyImages ==
  [i \in 1..(DefaultOptions.maxVeoSegments + 1) |->
     [id |-> i, room |-> roomOrder[((i - 1) % 7) + 1], num |-> i]]

\* the ingested images of a tour: up to MaxTourImages files, all of one room
\* or of distinct rooms, their filename numbers in any order with ties, for
\* a short or a longer target; or the ManyImages
Init ==
  /\ \/ /\ \E n \in 0..MaxTourImages : \E distinct \in BOOLEAN :
              \E nums \in [1..n -> 0..1] :
                images = [i \in 1..n |->
                            [id |-> i,
                             room |-> IF distinct THEN roomOrder[((i - 1) % 7) + 1]
                                      ELSE "living",
                             num |-> nums[i]]]
        /\ targetSeconds \in {ShortTourSeconds, TourTargetSeconds}
     \/ /\ images = ManyImages
        /\ targetSeconds = TourTargetSeconds
  /\ options = DefaultOptions
  /\ plan = NoPlan
  /\ planPc = "call"
  /\ ClipIdle
  /\ TourIdle
  /\ QueueIdle
  /\ KenBurnsIdle
  /\ tmpDir = "absent"
  /\ AsmIdle

Next ==
  \/ QueueHomeTourGeneration
  \/ TourMkdir
  \/ TourIngest
  \/ TourUpload
  \/ ClipAuth
  \/ ClipSubmitResponse
  \/ ClipPollResponse
  \/ ClipDelayElapsed
  \/ ClipDownloadDone
  \/ ClipExtractDone
  \/ TourSegmentDone
  \/ TourSegmentFailed
  \/ TourAudio
  \/ AssembleVideo
  \/ AssembleManifestWritten
  \/ AssembleTimelineDone
  \/ AssembleMixDone
  \/ AssembleCombineDone
  \/ AssembleCleanup
  \/ TourAssemble
  \/ TourBranding
  \/ TourCleanup

Spec == Init /\ [][Next]_vars

(***************************************************************************)
(* Job queue, src/index.ts (activeJobs)                                    *)
(***************************************************************************)
\* the variables the job API does not touch
queueRest == <<planVars, clipVars, tourVars, tmpDir, musicConfig, kenBurns, asmVars>>

\* the entry queueHomeTourGeneration creates
PendingJob == [status |-> "pending", progress |-> RInt(0), phase |-> "queued",
               error |-> NoError, result |-> FALSE]

\* processJobAsync that starts on a later turn: the job is still 'pending'
\* when queueHomeTourGeneration returns
ProcessingStarted_deferred(j) == j
\* processJobAsync up to its first await: job.status = 'processing'
ProcessingStarted(j) == [j EXCEPT !.status = "processing", !.phase = "starting"]

\* cancelJob cancels a job that is being processed as well
CancelAllowed_whileProcessing(status) == status \in {"pending", "processing"}

\* cancelJob: job.status === 'pending'
CancelAllowed(status) == status = "pending"

\* the object written by writer
Written(o, writer) == {<<o, writer>>}

\* queueHomeTourGeneration(config, id): a new JobStatus object is set in the
\* map under id, and processJobAsync runs on it up to its first await
\* before the call returns
JobsQueue ==
  /\ Len(jobObjects) < MaxJobObjects
  /\ \E id \in JobIds :
       LET o == Len(jobObjects) + 1
       IN  /\ jobObjects' = Append(jobObjects,
                                   [entry |-> ProcessingStarted(PendingJob),
                                    task |-> "running", id |-> id])
           /\ activeJobs' = [activeJobs EXCEPT ![id] = o]
           /\ apiLog' = [call |-> "queueHomeTourGeneration", id |-> id,
                         returned |-> ProcessingStarted(PendingJob).status,
                         writes |-> apiLog.writes \cup Written(o, <<"task", o>>)]
  /\ UNCHANGED queueRest

\* the progress handler of the task of an object is called by makeHomeTour
JobsProgress ==
  /\ \E o \in 1..Len(jobObjects) :
       /\ jobObjects[o].task = "running"
       /\ jobObjects' = [jobObjects EXCEPT
                           ![o].entry = JobProgressed(@, "pipeline", RInt(60))]
       /\ apiLog' = [apiLog EXCEPT !.writes = @ \cup Written(o, <<"task", o>>)]
  /\ UNCHANGED <<activeJobs, queueRest>>

\* makeHomeTour returned to the task of an object
JobsComplete ==
  /\ \E o \in 1..Len(jobObjects) :
       /\ jobObjects[o].task = "running"
       /\ jobObjects' = [jobObjects EXCEPT ![o].entry = JobCompleted(@),
                                           ![o].task = "done"]
       /\ apiLog' = [apiLog EXCEPT !.writes = @ \cup Written(o, <<"task", o>>)]
  /\ UNCHANGED <<activeJobs, queueRest>>

\* makeHomeTour threw to the task of an object
JobsFail ==
  /\ \E o \in 1..Len(jobObjects) :
       /\ jobObjects[o].task = "running"
       /\ jobObjects' = [jobObjects EXCEPT
                           ![o].entry = JobFailed(@, [kind |-> "TourError",
                                                      detail |-> "none"]),
                           ![o].task = "done"]
       /\ apiLog' = [apiLog EXCEPT !.writes = @ \cup Written(o, <<"task", o>>)]
  /\ UNCHANGED <<activeJobs, queueRest>>

\* cancelJob(id)
JobsCancel ==
  /\ \E id \in JobIds :
       LET o == activeJobs[id]
       IN  IF o # 0 /\ CancelAllowed(jobObjects[o].entry.status)
           THEN /\ jobObjects' = [jobObjects EXCEPT
                                    ![o].entry = JobFailed(@, [kind |-> "Cancelled by user",
                                                               detail |-> "none"])]
                /\ apiLog' = [call |-> "cancelJob", id |-> id, returned |-> "true",
                              writes |-> apiLog.writes \cup Written(o, <<"cancelJob", id>>)]
           ELSE /\ apiLog' = [apiLog EXCEPT !.call = "cancelJob", !.id = id,
                                            !.returned = "false"]
                /\ UNCHANGED jobObjects
  /\ UNCHANGED <<activeJobs, queueRest>>

\* getJobStatus(id): the entry of the map, or null
JobsGetStatus ==
  /\ \E id \in JobIds :
       apiLog' = [apiLog EXCEPT
                    !.call = "getJobStatus", !.id = id,
                    !.returned = IF activeJobs[id] = 0 THEN "null"
                                 ELSE jobObjects[activeJobs[id]].entry.status]
  /\ UNCHANGED <<activeJobs, jobObjects, queueRest>>

\* no job is queued; the tour, the render job and the assembler are idle
InitJobs ==
  /\ images = <<>>
  /\ targetSeconds = 90
  /\ options = DefaultOptions
  /\ plan = NoPlan
  /\ planPc = "call"
  /\ ClipIdle
  /\ TourIdle
  /\ QueueIdle
  /\ KenBurnsIdle
  /\ tmpDir = "absent"
  /\ AsmIdle

NextJobs ==
  \/ JobsQueue
  \/ JobsProgress
  \/ JobsComplete
  \/ JobsFail
  \/ JobsCancel
  \/ JobsGetStatus

SpecJobs == InitJobs /\ [][NextJobs]_vars

(***************************************************************************)
(* The Ken Burns generator (KenBurnsGenerator): generateKenBurns            *)
(* checks the image, makes the output directory, builds the filter, which  *)
(* validates the numbers, and only then starts ffmpeg.                     *)
(***************************************************************************)
\* the numbers a caller passes: non-finite, negative, zero and positive
FiniteChoices == {-1, 0, 4}
NumberChoices == {NaN, Infinity, MinusInfinity} \cup {Finite(v) : v \in FiniteChoices}
PercentChoices == {0, 50, 99}

kenBurnsRest == <<planVars, clipVars, tourVars, tmpDir, musicConfig, asmVars, queueVars>>

IsFinite(x) == x.kind = "finite"

\* x <= 0 that is false of zero
NotPositive_negativeOnly(x) ==
  \/ x.kind = "-inf"
  \/ x.kind = "finite" /\ x.value < 0
\* x <= 0 in JavaScript: false of NaN and of Infinity
NotPositive(x) ==
  \/ x.kind = "-inf"
  \/ x.kind = "finite" /\ x.value <= 0

KenBurnsError(message) == [class |-> "Error", message |-> message]

\* the validation of buildFilter: the error it throws, or none
FilterError(duration, width, height, fps) ==
  IF ~IsFinite(duration) \/ NotPositive(duration)
  THEN KenBurnsError("Invalid duration")
  ELSE IF ~IsFinite(width) \/ NotPositive(width) \/ ~IsFinite(height) \/ NotPositive(height)
  THEN KenBurnsError("Invalid dimensions")
  ELSE IF ~IsFinite(fps) \/ NotPositive(fps)
  THEN KenBurnsError("Invalid fps")
  ELSE [class |-> "none", message |-> "none"]

\* the filter buildFilter returns: scale to width:height, then pad
buildFilter(width, height) ==
  <<[op |-> "scale", w |-> width.value, h |-> height.value],
    [op |-> "pad", w |-> width.value, h |-> height.value]>>

\* generateKenBurns up to its first await: progress 0, then the image must
\* exist
KenBurnsCall ==
  /\ kenBurns.pc = "call"
  /\ kenBurns' = IF kenBurns.imageExists
                 THEN [kenBurns EXCEPT !.pc = "mkdir", !.progress = 0]
                 ELSE [kenBurns EXCEPT !.pc = "threw", !.progress = 0,
                                       !.error = KenBurnsError("Input image not found")]
  /\ UNCHANGED kenBurnsRest

\* fs.promises.mkdir settles; on success buildFilter validates the numbers
\* and, if they pass, ffmpeg is started
KenBurnsMkdirDone ==
  /\ kenBurns.pc = "mkdir"
  /\ \E ok \in BOOLEAN :
        kenBurns' =
          IF ~ok
          THEN [kenBurns EXCEPT !.pc = "threw",
                                !.error = [class |-> "SystemError", message |-> "mkdir"]]
          ELSE LET err == FilterError(kenBurns.duration, kenBurns.width, kenBurns.height,
                                      kenBurns.fps)
               IN  IF err.class # "none"
                   THEN [kenBurns EXCEPT !.pc = "threw", !.error = err]
                   ELSE [kenBurns EXCEPT
                           !.pc = "ffmpeg",
                           !.processes =
                              Append(@, [t |-> kenBurns.duration.value,
                                         vf |-> buildFilter(kenBurns.width, kenBurns.height),
                                         r |-> kenBurns.fps.value])]
  /\ UNCHANGED kenBurnsRest

\* a progress event of ffmpeg: a percent that is not 0 is reported, capped at 95
KenBurnsProgress ==
  /\ kenBurns.pc = "ffmpeg"
  /\ \E percent \in PercentChoices :
        kenBurns' = IF percent # 0
                    THEN [kenBurns EXCEPT !.progress = IF percent < 95 THEN percent ELSE 95]
                    ELSE kenBurns
  /\ UNCHANGED kenBurnsRest

\* ffmpeg ends: progress 100 and the promise resolves with the output path
KenBurnsEnd ==
  /\ kenBurns.pc = "ffmpeg"
  /\ kenBurns' = [kenBurns EXCEPT !.pc = "returned", !.progress = 100]
  /\ UNCHANGED kenBurnsRest

\* ffmpeg fails: the promise rejects
KenBurnsFfmpegError ==
  /\ kenBurns.pc = "ffmpeg"
  /\ kenBurns' = [kenBurns EXCEPT !.pc = "threw",
                                  !.error = KenBurnsError("Ken Burns generation failed")]
  /\ UNCHANGED kenBurnsRest

\* any image, present or not, and any four numbers
InitKenBurns ==
  /\ images = <<>>
  /\ targetSeconds = 90
  /\ options = DefaultOptions
  /\ plan = NoPlan
  /\ planPc = "call"
  /\ ClipIdle
  /\ TourIdle
  /\ QueueIdle
  /\ tmpDir = "absent"
  /\ AsmIdle
  /\ \E e \in BOOLEAN, d \in NumberChoices, w \in NumberChoices, h \in NumberChoices,
        f \in NumberChoices :
        kenBurns = [NoKenBurns EXCEPT !.pc = "call", !.imageExists = e, !.duration = d,
                                      !.width = w, !.height = h, !.fps = f]

NextKenBurns ==
  \/ KenBurnsCall
  \/ KenBurnsMkdirDone
  \/ KenBurnsProgress
  \/ KenBurnsEnd
  \/ KenBurnsFfmpegError

SpecKenBurns == InitKenBurns /\ [][NextKenBurns]_vars

(***************************************************************************)
(* Properties of the scene planner                                         *)
(***************************************************************************)
IsFiller(sc) == sc.id[3]

\* the <<scene, position>> slots of a scene list that hold the image
SlotsOf(scenes, image) ==
  {sl \in UNION {{<<i, k>> : k \in 1..Len(scenes[i].images)} : i \in 1..Len(scenes)} :
     scenes[sl[1]].images[sl[2]] = image}

NonFillerScenes(scenes) == SelectSeq(scenes, LAMBDA sc : ~IsFiller(sc))

VeoCount(scenes) == Cardinality({i \in 1..Len(scenes) : scenes[i].type = "veo"})

\* C1: for a non-empty image list with targetSeconds / roomCount >=
\* minSegmentDuration, the returned plan's totalDuration lies within +/-10%
\* of targetSeconds (stated for a planner built with its default options,
\* roomCount being the size of the room map calculateTiming is given).
C1_TotalWithinTenPercent ==
  (/\ planPc = "returned"
   /\ options = DefaultOptions
   /\ Len(images) >= 1
   /\ targetSeconds >= minSegmentDuration * Len(groupImagesByRoom(images)))
  => /\ RLe(Rat(9 * targetSeconds, 10), plan.totalDuration)
     /\ RLe(plan.totalDuration, Rat(11 * targetSeconds, 10))

\* C2 as stated: every input image appears in exactly one scene of the
\* returned plan.
C2_ExactlyOneScene ==
  planPc = "returned" =>
    \A i \in 1..Len(images) : Cardinality(SlotsOf(plan.scenes, images[i])) = 1

\* C2 as amended: the scenes other than a filler partition the input images
\* (every input image in exactly one of them, and they hold nothing else); a
\* filler scene, of which there is at most one and which comes last, holds a
\* single image that is also the last image of another scene.
C2_PartitionExceptFiller ==
  planPc = "returned" =>
    LET scenes == plan.scenes
        grouped == NonFillerScenes(scenes)
    IN  /\ \A i \in 1..Len(images) : Cardinality(SlotsOf(grouped, images[i])) = 1
        /\ \A s \in 1..Len(scenes) : \A k \in 1..Len(scenes[s].images) :
              \E i \in 1..Len(images) : scenes[s].images[k] = images[i]
        /\ \A s \in 1..Len(scenes) :
              IsFiller(scenes[s]) =>
                /\ s = Len(scenes)
                /\ Len(scenes[s].images) = 1
                /\ \E t \in 1..(s - 1) :
                      /\ ~IsFiller(scenes[t])
                      /\ scenes[t].images[Len(scenes[t].images)] = scenes[s].images[1]

\* a plan with a split room (two sub-scenes) and a filler scene was returned
C2_Witness ==
  /\ planPc = "returned"
  /\ \E s \in 1..Len(plan.scenes) : IsFiller(plan.scenes[s])
  /\ \E s \in 1..Len(plan.scenes) : plan.scenes[s].id[2] = 2

\* C3: the number of 'veo' scenes of a returned plan is at most maxVeoSegments.
C3_VeoWithinCap ==
  planPc = "returned" =>
    /\ VeoCount(plan.scenes) <= options.maxVeoSegments
    /\ plan.veoSegments <= options.maxVeoSegments

\* a plan with more scenes than the cap was returned, the cap being used up
C3_Witness ==
  /\ planPc = "returned"
  /\ options.preferVeoOverKenBurns
  /\ Len(plan.scenes) > options.maxVeoSegments
  /\ VeoCount(plan.scenes) = options.maxVeoSegments

\* C4: planScenes called with zero images fails (InsufficientInputError) and
\* returns no plan.
C4_ZeroImagesFails ==
  Len(images) = 0 => planPc # "returned"

(***************************************************************************)
(* Properties of the render job                                            *)
(***************************************************************************)
\* the submission error classes withRetry does not retry
NonRetryableClasses == {"quota", "permission", "invalid"}

DoneWithError == lastOp.done /\ lastOp.error # "none"

\* C5: a status response with done = true and an error payload ends the
\* render job in failure with the service's message; afterwards no poll and
\* no submission is issued, no clip is downloaded and no VideoSegment is
\* produced for that job.
C5_DoneWithErrorFails ==
  /\ [](DoneWithError =>
          /\ clipPc = "threw"
          /\ clipError = [kind |-> "Veo generation failed", detail |-> lastOp.error]
          /\ downloads = 0
          /\ extractions = 0
          /\ tourPc \in {"clip", "cleanup", "threw"}
          /\ Len(videoSegments) = segIndex
          /\ job.status # "completed")
  /\ [][DoneWithError =>
          UNCHANGED <<clipPc, pollCount, submitCount, downloads, videoSegments>>]_vars

\* the second image's job failed that way in a tour of a queued job
C5_Witness ==
  /\ DoneWithError
  /\ clipPc = "threw"
  /\ tourPc = "threw"
  /\ segIndex = 1
  /\ attempts > 1

PollOutcomeReturned == lastOp.done /\ lastOp.error = "none"
PollOutcomeFailed ==
  clipError.kind \in {"PollNetworkError", "Failed to poll operation", "Veo generation failed"}
PollOutcomeTimedOut == clipError.kind = "Veo operation timed out"

\* pollOperation is over
PollOver == pollCount >= 1 /\ clipPc \notin {"poll", "delay"}

\* C6: pollOperation issues at most maxAttempts status queries and then
\* terminates in exactly one outcome: the done operation is returned, the job
\* fails, or the job times out (the latter only after maxAttempts queries).
C6_PollBounded ==
  /\ [](/\ pollCount <= maxAttempts
         /\ pollCount = attempts
         /\ (PollOver =>
              /\ Cardinality({o \in {"returned", "failed", "timedout"} :
                                \/ o = "returned" /\ PollOutcomeReturned
                                \/ o = "failed" /\ PollOutcomeFailed
                                \/ o = "timedout" /\ PollOutcomeTimedOut}) = 1
              /\ (PollOutcomeTimedOut => pollCount = maxAttempts))
         /\ (clipPc \in {"poll", "delay"} => clipError = NoError /\ ~lastOp.done))
  /\ <>(clipPc \in {"returned", "threw"})

\* the job timed out after maxAttempts queries
C6_Witness ==
  /\ clipPc = "threw"
  /\ PollOutcomeTimedOut
  /\ pollCount = maxAttempts

\* a delay is started after a not-done poll that is not the first
NextDelayStarts == clipPc = "poll" /\ clipPc' = "delay" /\ attempts >= 2

\* C7 as stated: the delay waited after the k-th not-done poll is never
\* smaller than the one waited after the (k-1)-th, and its non-jitter part
\* never exceeds 30000 ms.
C7_DelayNonDecreasing ==
  /\ [][NextDelayStarts => RLe(DelayTotal(lastDelay), DelayTotal(lastDelay'))]_vars
  /\ [](RLe(lastDelay.base, RInt(30000)))

\* C7 as amended: the non-jitter part of the delay (baseDelay) is never
\* smaller than that of the previous delay and never exceeds 30000 ms; the
\* delay waited is that part plus a jitter in [0, 1000) ms, so it can be
\* smaller than the previous delay, by less than 1000 ms.
C7_BaseDelayNonDecreasing ==
  /\ [][NextDelayStarts =>
          /\ RLe(lastDelay.base, lastDelay'.base)
          /\ RLt(RSub(DelayTotal(lastDelay), RInt(1000)), DelayTotal(lastDelay'))]_vars
  /\ [](/\ RLe(lastDelay.base, RInt(30000))
         /\ RLe(lastDelay.base, DelayTotal(lastDelay))
         /\ RLt(DelayTotal(lastDelay), RAdd(lastDelay.base, RInt(1000)))
         /\ (clipPc = "delay" => lastDelay.base = BaseDelay(attempts)))

\* the first delay at the cap follows a delay below it
C7_Witness ==
  /\ clipPc = "delay"
  /\ attempts = 9
  /\ lastDelay.base = RInt(30000)
  /\ RLt(BaseDelay(attempts - 1), RInt(30000))

\* C8: a submission that fails with a quota, permission or invalid-argument
\* error is the only submission of the job: the error is thrown at once and
\* no poll is issued.
C8_NonRetryableSubmittedOnce ==
  (clipError.kind = "Veo API request failed" /\ clipError.detail \in NonRetryableClasses)
  => /\ clipPc = "threw"
     /\ submitCount = 1
     /\ pollCount = 0
     /\ downloads = 0

\* the submission failed with a quota error
C8_Witness ==
  /\ clipPc = "threw"
  /\ clipError = [kind |-> "Veo API request failed", detail |-> "quota"]
  /\ submitCount = 1

\* C9: a transient submission failure is retried, up to 3 attempts in all:
\* it is thrown to the caller only when the third attempt failed.
C9_TransientSubmitRetried ==
  (/\ clipPc = "threw"
   /\ clipError.kind \in {"Veo API request failed", "SubmitNetworkError"}
   /\ clipError.detail = "transient")
  => submitCount = 3

(***************************************************************************)
(* Properties of the tour pipeline                                         *)
(***************************************************************************)
\* C10: when the render job of a segment failed (or timed out) no later
\* segment is rendered, the assembler is never invoked, no output file is
\* produced, and the queued job ends 'failed' with the job's error.
C10_SegmentFailureAborts ==
  /\ []((tourPc # "idle" /\ clipPc = "threw") =>
          /\ tourPc \in {"clip", "cleanup", "threw"}
          /\ assembleCalls = 0
          /\ ~outputProduced
          /\ Len(videoSegments) = segIndex
          /\ job.status \in {"processing", "failed"}
          /\ (tourPc \in {"cleanup", "threw"} => tourError = clipError)
          /\ (tourPc = "threw" => job.status = "failed" /\ job.error = clipError)
          /\ job.result = FALSE)
  /\ [][(tourPc # "idle" /\ clipPc = "threw") =>
          UNCHANGED <<clipVars, segIndex, videoSegments, assembleCalls, outputProduced>>]_vars

\* the job of the second of three images timed out and the queued job failed
C10_Witness ==
  /\ tourPc = "threw"
  /\ clipPc = "threw"
  /\ clipError.kind = "Veo operation timed out"
  /\ Len(images) = 3
  /\ segIndex = 1
  /\ Len(videoSegments) = 1
  /\ job.status = "failed"

\* the ids of the images of a scene
SceneImageIds(sc) == {sc.images[k].id : k \in 1..Len(sc.images)}

\* C11: in a successful generation the video segments handed to the
\* assembler correspond one-to-one to the scenes of the ScenePlan: as many
\* segments as scenes, each segment rendered from an image of its own scene.
C11_SegmentsMatchScenes ==
  tourPc = "returned" =>
    /\ Len(asmSegments) = Len(plan.scenes)
    /\ \E f \in [1..Len(asmSegments) -> 1..Len(plan.scenes)] :
          /\ \A i, j \in 1..Len(asmSegments) : f[i] = f[j] => i = j
          /\ \A i \in 1..Len(asmSegments) :
                asmSegments[i].image \in SceneImageIds(plan.scenes[f[i]])

\* the position in the plan of the first scene that holds the image
SceneIndexOf(scenes, imageId) ==
  CHOOSE s \in 1..Len(scenes) :
    /\ imageId \in SceneImageIds(scenes[s])
    /\ \A t \in 1..(s - 1) : imageId \notin SceneImageIds(scenes[t])

\* C12: the video segments are produced, and listed in the concatenation
\* manifest, in the order in which the planner emitted the scenes (a segment
\* never precedes a segment of an earlier scene), and the manifest lists the
\* segments in the order of the list the assembler was given.
C12_PlannerOrder ==
  /\ planPc = "returned" =>
        \A i, j \in 1..Len(videoSegments) :
           i < j => SceneIndexOf(plan.scenes, videoSegments[i].image)
                      <= SceneIndexOf(plan.scenes, videoSegments[j].image)
  /\ manifest # <<>> =>
        /\ manifest = [i \in 1..Len(asmSegments) |-> asmSegments[i].image]
        /\ (tourPc # "idle" =>
              \A i, j \in 1..Len(manifest) :
                 i < j => SceneIndexOf(plan.scenes, manifest[i])
                            <= SceneIndexOf(plan.scenes, manifest[j]))

\* the number filename carries, of the image a segment was rendered from
NumOfSegment(seg) == images[seg.image].num

\* C13: in a successful generation every ingested image became exactly one
\* video segment of 4 seconds, the segments are in ascending order of the
\* number in the image filename, and there are as many segments as images.
\* (A generation of three or more images never succeeds: PromptThrows.)
C13_OneSegmentPerImage ==
  /\ tourPc = "returned" =>
        /\ Len(asmSegments) = Len(images)
        /\ videoSegments = [i \in 1..Len(images) |-> SegmentOf(SortedImages(images)[i])]
        /\ \A k \in 1..Len(images) :
              Cardinality({i \in 1..Len(asmSegments) : asmSegments[i].image = images[k].id}) = 1
        /\ \A i \in 1..Len(asmSegments) : asmSegments[i].duration = 4
  /\ \A i, j \in 1..Len(videoSegments) :
        i < j => NumOfSegment(videoSegments[i]) <= NumOfSegment(videoSegments[j])

\* a tour of two images given in descending order of their numbers succeeded
C13_Witness ==
  /\ tourPc = "returned"
  /\ Len(images) = 2
  /\ images[1].num > images[2].num
  /\ Len(asmSegments) = 2

\* a render job is in flight: submitted and not at a terminal outcome
JobInFlight == clipPc \in {"submit", "poll", "delay"}

\* C14: within one tour at most one render job is in flight: a job is
\* submitted only when the job of every earlier segment has ended with its
\* clip pushed, and the loop moves to the next segment only when the job of
\* the current one has returned its downloaded clip.
C14_OneJobInFlight ==
  /\ []((tourPc # "idle" /\ JobInFlight) =>
          /\ tourPc = "clip"
          /\ Len(videoSegments) = segIndex
          /\ submitCount = 1)
  /\ []((tourPc = "upload") => clipPc = "idle" /\ submitCount = 0)
  /\ [][(tourPc # "idle" /\ Len(videoSegments') > Len(videoSegments)) =>
          /\ clipPc = "returned"
          /\ downloads = 1
          /\ submitCount = 1
          /\ clipPc' = "idle"]_vars

\* the job of the second segment is polled, the first clip being pushed
C14_Witness ==
  /\ tourPc = "clip"
  /\ clipPc = "delay"
  /\ segIndex = 1
  /\ Len(videoSegments) = 1

\* the render jobs submitted so far in this tour: one per finished segment
\* and those of the generateClip in progress
JobsSubmitted == Len(videoSegments) + submitCount

CommandsOf(tool) == SelectSeq(processes, LAMBDA c : c.tool = tool)

\* C16: with zero audio tracks no mixing process is run and the combine step
\* is given no audio input (noAudio); with exactly one track no mixing
\* process is run and the combine step is given that track's file as its
\* audio input, with no volume or delay filter.
C16_FewTracksUnmixed ==
  Len(audioTracks) <= 1 =>
    /\ asmPc # "mix"
    /\ CommandsOf("mix") = <<>>
    /\ MixedAudio \notin tempFiles
    /\ \A i \in 1..Len(processes) :
          /\ processes[i].filters = <<>>
          /\ processes[i].tool = "combine" =>
                processes[i].audio = IF Len(audioTracks) = 0 THEN ""
                                     ELSE audioTracks[1].path
    /\ (asmPc = "returned" => Len(CommandsOf("combine")) = 1 /\ asmOutput)

\* assembleVideo returned for a single music track of volume 0.3
C16_Witness ==
  /\ asmPc = "returned"
  /\ Len(audioTracks) = 1
  /\ audioTracks[1].volume # RInt(1)
  /\ CommandsOf("combine") = <<Command("combine", "music.mp3", <<>>)>>

\* a segment file or an audio track file is missing
InputMissing ==
  \/ \E i \in 1..Len(asmSegments) : ~asmSegments[i].exists
  \/ \E i \in 1..Len(audioTracks) : ~audioTracks[i].exists

\* C17: if a video segment file or an audio track file given to
\* assembleVideo is missing, assembleVideo fails without having started any
\* ffmpeg process and without having written a manifest, timeline, mix or
\* output file.
C17_FailFastValidation ==
  (InputMissing /\ asmPc \notin {"idle", "call"}) =>
    /\ asmPc = "threw"
    /\ asmError \in {"Video segment not found", "Audio track not found", "MkdirError"}
    /\ processes = <<>>
    /\ tempFiles = {}
    /\ manifest = <<>>
    /\ ~asmOutput

\* every segment is there and the second of two audio tracks is missing
C17_Witness ==
  /\ asmPc = "threw"
  /\ asmError = "Audio track not found"
  /\ Len(asmSegments) >= 2
  /\ \A i \in 1..Len(asmSegments) : asmSegments[i].exists
  /\ Len(audioTracks) = 2
  /\ audioTracks[1].exists

\* the errors assembleVideo throws before its try block
ValidationErrors == {"Video segment not found", "Audio track not found", "MkdirError"}

\* C18: once assembleVideo has passed validation its cleanup runs exactly
\* once on every exit path and never raises (the call settles with the
\* failure of the processing stage, or returns), and the error makeHomeTour
\* throws is the original failure whether or not the temporary directory
\* could be removed.
C18_CleanupNeverMasks ==
  /\ []((asmPc \in {"returned", "threw"} /\ asmError \notin ValidationErrors) =>
          asmCleanups = 1)
  /\ [](asmPc = "returned" => asmError = "none" /\ asmOutput)
  /\ [][asmError # "none" => asmError' = asmError]_vars
  /\ [][asmPc = "cleanup" => asmError' = asmError /\ asmCleanups' = asmCleanups + 1]_vars
  /\ [][tourPc = "cleanup" => tourPc' = "threw" /\ tourError' = tourError]_vars
  /\ []((tourPc = "threw" /\ job.status # "absent") => job.error = tourError)

\* the timeline step failed, the temporary video could not be deleted,
\* assembleVideo threw the timeline error, the temporary directory could not
\* be removed and the queued job failed with the timeline error
C18_Witness ==
  /\ asmPc = "threw"
  /\ asmError = "TimelineError"
  /\ asmCleanups = 1
  /\ TempVideo \in tempFiles
  /\ tourPc = "threw"
  /\ tourError = [kind |-> "AssemblyError", detail |-> "TimelineError"]
  /\ tmpDir = "present"
  /\ job.status = "failed"

\* C19: after assembleVideo has returned or thrown, no temporary file the
\* assembler wrote during the call (manifest, timeline video, mixed audio)
\* is on disk.
C19_NoTempFilesLeft ==
  asmPc \in {"returned", "threw"} => tempFiles = {}

\* C20: for every pair of adjacent segments and every crossfadeDuration >= 0
\* the offset buildCrossfadeFilter computes is the earlier segment's
\* duration minus the crossfade duration if that is positive and 0
\* otherwise: it is never negative.
C20_OffsetNeverNegative ==
  xfade.called =>
    /\ Len(xfade.offsets) = Max(0, Len(xfade.segments) - 1)
    /\ \A i \in 1..Len(xfade.offsets) :
          LET d == xfade.segments[i].duration
              cf == xfade.crossfadeDuration
              offset == xfade.offsets[i].offset
          IN  /\ RLe(RInt(0), offset)
              /\ IF RLe(cf, d) THEN RAdd(offset, cf) = d ELSE offset = RInt(0)

\* a filter was built for a segment shorter than the crossfade, followed by
\* a longer one
C20_Witness ==
  /\ xfade.called
  /\ Len(xfade.segments) = 3
  /\ RLt(xfade.segments[1].duration, xfade.crossfadeDuration)
  /\ RLt(xfade.crossfadeDuration, xfade.segments[2].duration)
  /\ xfade.offsets[1].offset = RInt(0)
  /\ xfade.offsets[2].offset # RInt(0)

(***************************************************************************)
(* Properties of the job queue                                             *)
(***************************************************************************)
\* C21: whatever the point of the job's processing at which its entry is
\* read, an entry of status 'completed' has its result set and progress 100,
\* and an entry of status 'failed' has its error set.
C21_NoTornEntry ==
  /\ job.status \in {"absent", "processing", "completed", "failed"}
  /\ (job.status = "completed" =>
        /\ job.result
        /\ job.progress = RInt(100)
        /\ job.error = NoError)
  /\ (job.status = "failed" => job.error # NoError /\ ~job.result)
  /\ (job.status = "processing" => ~job.result /\ job.error = NoError)

\* the job of a tour of two images completed
C21_Witness ==
  /\ job.status = "completed"
  /\ tourPc = "returned"
  /\ Len(images) = 2

\* C22: every write to a JobStatus object after its creation is made by the
\* processing task of that object: cancelJob, getJobStatus, a later
\* queueHomeTourGeneration and the tasks of other objects leave it as it is.
C22_SingleWriter ==
  /\ [](\A w \in apiLog.writes : w[2] = <<"task", w[1]>>)
  /\ [][\A o \in 1..Len(jobObjects) :
          jobObjects'[o].entry # jobObjects[o].entry =>
            /\ jobObjects[o].task = "running"
            /\ apiLog'.call = apiLog.call
            /\ \A p \in 1..Len(jobObjects) : p # o => jobObjects'[p] = jobObjects[p]]_vars

\* cancelJob was called on a job being processed and returned false, and
\* a second object was created under the id of the first
C22_Witness ==
  /\ apiLog.call = "cancelJob"
  /\ apiLog.returned = "false"
  /\ activeJobs[apiLog.id] = 2
  /\ jobObjects[1].id = apiLog.id
  /\ jobObjects[1].task = "running"
  /\ jobObjects[2].entry.status = "processing"

-----------------------------------------------------------------------------
\* Further properties of the scene planner

\* C26: for an image list of at least one image and any target duration
\* planScenes returns a plan of at least one scene, and every scene of it
\* holds at least one image
C26_PlanNeverEmpty ==
  (planPc = "returned" /\ Len(images) >= 1) =>
     /\ Len(plan.scenes) >= 1
     /\ \A i \in 1..Len(plan.scenes) : Len(plan.scenes[i].images) >= 1

\* a room of five images was split into a scene of three and a scene of two
C26_Witness ==
  /\ planPc = "returned"
  /\ Len(images) = 5
  /\ \E i, j \in 1..Len(plan.scenes) :
        /\ plan.scenes[i].room = plan.scenes[j].room
        /\ ~plan.scenes[i].id[3] /\ ~plan.scenes[j].id[3]
        /\ Len(plan.scenes[i].images) = 3
        /\ Len(plan.scenes[j].images) = 2

\* the rooms that hold an image of a recognized room, the bucket of the
\* buckets G an image ended in, and the size a bucket had when the
\* unknown-room image im was placed: its images of recognized rooms and the
\* unknown-room images placed before im
IsUnknown(im) == BucketOf(im) = "other"
KnownRooms == {BucketOf(images[k]) : k \in {j \in 1..Len(images) : ~IsUnknown(images[j])}}
HolderOf(G, im) ==
  CHOOSE r \in {G[i][1] : i \in 1..Len(G)} :
     \E k \in 1..Len(MapGet(G, r)) : MapGet(G, r)[k] = im
SizeWhenPlaced(G, r, im) ==
  LET bucket == MapGet(G, r)
  IN  Cardinality({k \in 1..Len(bucket) : ~IsUnknown(bucket[k]) \/ bucket[k].id < im.id})
FirstUnknown(k) == IsUnknown(images[k]) /\ \A j \in 1..(k - 1) : ~IsUnknown(images[j])
AllUnknown == \A k \in 1..Len(images) : IsUnknown(images[k])
SceneList == [i \in 1..Len(plan.scenes) |->
                [room |-> plan.scenes[i].room, type |-> plan.scenes[i].type,
                 filler |-> plan.scenes[i].id[3]]]

\* C27 as stated: every unknown-room image goes to the bucket that is
\* smallest when it is placed, the first in canonical order among equals;
\* without a room bucket all go to one 'living' bucket, and three such
\* images give one 'living' scene of type veo
C27_UnknownToSmallestCanonical ==
  LET G == groupImagesByRoom(images) IN
  planPc = "returned" =>
     /\ \A k \in 1..Len(images) :
           (IsUnknown(images[k]) /\ KnownRooms # {}) =>
              LET b == HolderOf(G, images[k])
              IN  /\ b \in KnownRooms
                  /\ \A r \in KnownRooms :
                        \/ SizeWhenPlaced(G, b, images[k]) < SizeWhenPlaced(G, r, images[k])
                        \/ /\ SizeWhenPlaced(G, b, images[k]) = SizeWhenPlaced(G, r, images[k])
                           /\ IndexOf(roomOrder, b) <= IndexOf(roomOrder, r)
     /\ ((AllUnknown /\ Len(images) >= 1) => G = <<<<"living", images>>>>)
     /\ ((AllUnknown /\ Len(images) = 3 /\ options = DefaultOptions) =>
            SceneList = <<[room |-> "living", type |-> "veo", filler |-> FALSE]>>)

\* C27 amended: every unknown-room image goes to a bucket that is smallest
\* when it is placed; the first of them goes to the first in canonical
\* order among equals; without a room bucket all go to one 'living' bucket,
\* and three such images give one 'living' scene of type veo, followed by
\* at most a filler scene
C27_UnknownToSmallest ==
  LET G == groupImagesByRoom(images) IN
  planPc = "returned" =>
     /\ \A k \in 1..Len(images) :
           (IsUnknown(images[k]) /\ KnownRooms # {}) =>
              LET b == HolderOf(G, images[k])
              IN  /\ b \in KnownRooms
                  /\ \A r \in KnownRooms :
                        SizeWhenPlaced(G, b, images[k]) <= SizeWhenPlaced(G, r, images[k])
                  /\ FirstUnknown(k) =>
                        \A r \in KnownRooms :
                           SizeWhenPlaced(G, b, images[k]) = SizeWhenPlaced(G, r, images[k]) =>
                              IndexOf(roomOrder, b) <= IndexOf(roomOrder, r)
     /\ ((AllUnknown /\ Len(images) >= 1) => G = <<<<"living", images>>>>)
     /\ ((AllUnknown /\ Len(images) = 3 /\ options = DefaultOptions) =>
            /\ SceneList[1] = [room |-> "living", type |-> "veo", filler |-> FALSE]
            /\ \A i \in 2..Len(SceneList) : i = 2 /\ SceneList[i].filler)

\* two rooms of one image each and three unknown-room images: the third
\* was placed in a bucket that then had two images
C27_Witness ==
  LET G == groupImagesByRoom(images) IN
  /\ planPc = "returned"
  /\ Cardinality(KnownRooms) = 2
  /\ \E k \in 1..Len(images) :
        /\ IsUnknown(images[k])
        /\ SizeWhenPlaced(G, HolderOf(G, images[k]), images[k]) = 2
        /\ \A r \in KnownRooms : SizeWhenPlaced(G, r, images[k]) = 2

\* the buckets of the grouping that hold at least one image
FilledBuckets(G) == {i \in 1..Len(G) : Len(G[i][2]) >= 1}

\* C28: the room count calculateTiming divides by is the number of room
\* buckets that hold at least one image, with or without unknown-room images
C28_RoomCountIsFilledBuckets ==
  (planPc = "returned" /\ Len(images) >= 1) =>
     TimingOf(images, targetSeconds, options).roomCount =
        Cardinality(FilledBuckets(groupImagesByRoom(images)))

\* the filler scenes of the plan and its other scenes, whose durations are
\* the reconciled ones
FillerScenes == SelectSeq(plan.scenes, LAMBDA sc : sc.id[3])
ReconciledScenes == SelectSeq(plan.scenes, LAMBDA sc : ~sc.id[3])

\* C29: a plan has at most one filler scene, and has one only when the
\* reconciled durations sum to less than 95% of the available content time
\* and the shortfall to the available content time exceeds 3 seconds; the
\* duration of the filler is min(shortfall, 6)
C29_FillerOnlyForShortfall ==
  planPc = "returned" =>
     LET available == TimingOf(images, targetSeconds, options).availableContentTime
         reconciled == SumDurations(ReconciledScenes)
         shortfall == RSub(available, reconciled)
     IN  /\ Len(FillerScenes) <= 1
         /\ (Len(FillerScenes) = 1 =>
               /\ RLt(reconciled, RMul(available, Rat(19, 20)))
               /\ RLt(RInt(3), shortfall)
               /\ FillerScenes[1].duration = RMin(shortfall, RInt(6)))

\* C30: with the default options every veo scene of a returned plan lasts
\* between 4 and 8 seconds and every kenburns scene, a filler included,
\* between 3 and 10 seconds, whether the second pass ran or not
C30_DurationsWithinBounds ==
  (planPc = "returned" /\ options = DefaultOptions) =>
     \A i \in 1..Len(plan.scenes) :
        LET sc == plan.scenes[i]
        IN  IF sc.type = "veo"
            THEN RLe(RInt(4), sc.duration) /\ RLe(sc.duration, RInt(8))
            ELSE RLe(RInt(3), sc.duration) /\ RLe(sc.duration, RInt(10))

\* a plan of the default options with a veo scene, a kenburns scene that is
\* no filler, and a filler
C30_Witness ==
  /\ planPc = "returned"
  /\ options = DefaultOptions
  /\ \E i, j, k \in 1..Len(plan.scenes) :
        /\ plan.scenes[i].type = "veo"
        /\ plan.scenes[j].type = "kenburns" /\ ~plan.scenes[j].id[3]
        /\ plan.scenes[k].type = "kenburns" /\ plan.scenes[k].id[3]

\* C31 as stated: no kenburns scene of a returned plan is of a room that
\* ranks strictly higher in veoPriority than the room of a veo scene, and a
\* kenburns scene exists only if the veo scenes are as many as the cap
C31_VeoToHighestPriority ==
  planPc = "returned" =>
     /\ \A i, j \in 1..Len(plan.scenes) :
           (plan.scenes[i].type = "kenburns" /\ plan.scenes[j].type = "veo") =>
              PriorityOf(plan.scenes[i].room) >= PriorityOf(plan.scenes[j].room)
     /\ (plan.kenBurnsSegments > 0 => plan.veoSegments = options.maxVeoSegments)

\* C31 amended: the same of the scenes that are no filler, when veo is
\* preferred; the filler is a kenburns scene whatever its room
C31_VeoToHighestPriorityExceptFiller ==
  planPc = "returned" =>
     /\ \A i, j \in 1..Len(plan.scenes) :
           (plan.scenes[i].type = "kenburns" /\ ~plan.scenes[i].id[3]
              /\ plan.scenes[j].type = "veo") =>
              PriorityOf(plan.scenes[i].room) >= PriorityOf(plan.scenes[j].room)
     /\ ((\E i \in 1..Len(plan.scenes) :
             plan.scenes[i].type = "kenburns" /\ ~plan.scenes[i].id[3]) =>
           \/ plan.veoSegments = options.maxVeoSegments
           \/ ~options.preferVeoOverKenBurns /\ plan.veoSegments = 0)
     /\ \A i \in 1..Len(plan.scenes) :
           plan.scenes[i].id[3] => plan.scenes[i].type = "kenburns"

\* the cap of one veo scene was reached: the veo scene is of a room that
\* ranks higher than the room of a kenburns scene that is no filler
C31_Witness ==
  /\ planPc = "returned"
  /\ options.preferVeoOverKenBurns
  /\ \E i, j \in 1..Len(plan.scenes) :
        /\ plan.scenes[i].type = "kenburns" /\ ~plan.scenes[i].id[3]
        /\ plan.scenes[j].type = "veo"
        /\ PriorityOf(plan.scenes[i].room) > PriorityOf(plan.scenes[j].room)

\* the image lists of a sequence of scenes, one after the other
RECURSIVE ConcatImages(_)
ConcatImages(scenes) ==
  IF scenes = <<>> THEN <<>> ELSE scenes[1].images \o ConcatImages(Tail(scenes))

\* the scenes of the plan made of the bucket of a room, in plan order
ScenesOfRoom(room) == SelectSeq(plan.scenes, LAMBDA sc : sc.room = room /\ ~sc.id[3])

\* C32: a bucket of more than 4 images that is not 'exterior' becomes
\* ceil(count / 3) scenes of 1 to 3 images each whose image lists, one after
\* the other, are the image list of the bucket; any other bucket with an
\* image becomes one scene holding the images of the bucket
C32_LargeRoomsSplit ==
  planPc = "returned" =>
     LET G == groupImagesByRoom(images)
     IN  \A b \in 1..Len(G) :
            Len(G[b][2]) >= 1 =>
               LET made == ScenesOfRoom(G[b][1])
                   count == Len(G[b][2])
               IN  IF count > 4 /\ G[b][1] # "exterior"
                   THEN /\ Len(made) = (count + 2) \div 3
                        /\ \A k \in 1..Len(made) :
                              Len(made[k].images) \in 1..3
                        /\ ConcatImages(made) = G[b][2]
                   ELSE /\ Len(made) = 1
                        /\ made[1].images = G[b][2]

\* the room of 46 images became 16 scenes, the last of them of one image
C32_Witness ==
  /\ planPc = "returned"
  /\ Len(images) = 46
  /\ Len(ScenesOfRoom("living")) = 16
  /\ Len(ScenesOfRoom("living")[16].images) = 1

-----------------------------------------------------------------------------
\* Properties of the audio tracks

\* the music track generateAudioTracks built, and whether a voiceover
\* track came before it
MusicTrackOf(tracks) == tracks[Len(tracks)]
HasVoiceover(tracks) == \E i \in 1..Len(tracks) : tracks[i].type = "voiceover"
AudioTracksBuilt == musicConfig.present

\* C24: the music track has 40% of the configured music volume under a
\* voiceover track and exactly the configured music volume without one, and
\* its volume is within 0..1 for a configured volume within 0..1
C24_MusicVolumeDucked ==
  (AudioTracksBuilt /\ musicConfig.volumeSet) =>
     LET track == MusicTrackOf(audioTracks)
     IN  /\ track.type = "music"
         /\ track.volume = IF HasVoiceover(audioTracks)
                           THEN RMul(musicConfig.volume, Rat(2, 5))
                           ELSE musicConfig.volume
         /\ RLe(RInt(0), track.volume) /\ RLe(track.volume, RInt(1))
-----------------------------------------------------------------------------
\* Properties of the Ken Burns generator

\* a number that is finite and strictly positive, and a call one of whose
\* four numbers is not
FinitePositive(x) == x.kind = "finite" /\ x.value > 0
InvalidKenBurnsCall ==
  /\ kenBurns.pc # "idle"
  /\ \/ ~FinitePositive(kenBurns.duration)
     \/ ~FinitePositive(kenBurns.width)
     \/ ~FinitePositive(kenBurns.height)
     \/ ~FinitePositive(kenBurns.fps)
\* the errors of the validation of buildFilter
InvalidParametersErrors ==
  {KenBurnsError(m) : m \in {"Invalid duration", "Invalid dimensions", "Invalid fps"}}

\* C25 as stated: a call with a non-finite or non-positive duration, width,
\* height or frame rate never starts a process and never succeeds, and the
\* error it fails with is the invalid-parameters error
C25_InvalidParametersRejected ==
  InvalidKenBurnsCall =>
     /\ kenBurns.processes = <<>>
     /\ kenBurns.pc # "returned"
     /\ (kenBurns.pc = "threw" => kenBurns.error \in InvalidParametersErrors)

\* C25 amended: such a call never starts a process and never succeeds; it
\* fails with the image-not-found error when the image is missing, and
\* otherwise with the error of mkdir or the invalid-parameters error
C25_InvalidCallFailsUnstarted ==
  InvalidKenBurnsCall =>
     /\ kenBurns.processes = <<>>
     /\ kenBurns.pc \notin {"ffmpeg", "returned"}
     /\ (kenBurns.pc = "threw" =>
           IF ~kenBurns.imageExists
           THEN kenBurns.error = KenBurnsError("Input image not found")
           ELSE \/ kenBurns.error.class = "SystemError"
                \/ kenBurns.error \in InvalidParametersErrors)

\* a call with an existing image and a bad number failed in buildFilter
C25_Witness ==
  /\ InvalidKenBurnsCall
  /\ kenBurns.imageExists
  /\ kenBurns.pc = "threw"
  /\ kenBurns.error \in InvalidParametersErrors
  /\ kenBurns.processes = <<>>
-----------------------------------------------------------------------------
\* Further properties of the render job

\* C33: for a done operation without error the URI is taken from videos[0]
\* whenever the response has one and from predictions[0] otherwise; when
\* that entry holds no URI the call fails: nothing is downloaded and no
\* result is returned
C33_NewerShapePreferred ==
  (lastOp.done /\ lastOp.error = "none") =>
     /\ (lastOp.videos = "uri" => videoGcsUri = "videos")
     /\ (lastOp.videos = "nouri" => videoGcsUri = "none")
     /\ (lastOp.videos = "absent" =>
           videoGcsUri = CASE lastOp.predictions = "videoUri" -> "predictions.videoUri"
                           [] lastOp.predictions = "gcsUri" -> "predictions.video.gcsUri"
                           [] OTHER -> "none")
     /\ (videoGcsUri = "none" =>
           /\ clipPc = "threw"
           /\ clipError.kind = "ResultError"
           /\ downloads = 0
           /\ extractions = 0)

\* a response with both shapes gave a result from its videos entry
C33_Witness ==
  /\ clipPc = "returned"
  /\ lastOp.videos = "uri"
  /\ lastOp.predictions = "videoUri"
  /\ videoGcsUri = "videos"

\* the generateClip call is over
ClipOver == clipPc \in {"returned", "threw"}

\* the order of the side effects of one call: the submission before every
\* poll, every poll before the download, the download before the extraction
SideEffectsInOrder ==
  /\ (submitCount' # submitCount => pollCount = 0 /\ downloads = 0 /\ extractions = 0)
  /\ (pollCount' # pollCount => submitCount = 1 /\ downloads = 0 /\ extractions = 0)
  /\ (downloads' # downloads =>
        /\ pollCount >= 1 /\ extractions = 0
        /\ lastOp'.done /\ lastOp'.error = "none")
  /\ (extractions' # extractions => downloads = 1)
  /\ (clipPc' = "returned" => clipPc = "extract" /\ downloads = 1 /\ extractions = 1)

\* C34 as stated: every call makes exactly one submission, then one or more
\* polls, then at most one download, then at most one extraction, in that
\* order; the download follows a poll that returned done without error and
\* a result is returned only after the download and the extraction
C34_SideEffectsFixed ==
  /\ [](ClipOver =>
          /\ submitCount = 1
          /\ pollCount >= 1
          /\ downloads <= 1
          /\ extractions <= 1)
  /\ [][SideEffectsInOrder]_vars

\* C34 amended: a call makes at most one submission, none when the
\* authentication failed; it polls only after the submission was accepted,
\* and then at least once; at most one download and one extraction follow,
\* in that order; a call that returns a result made exactly one submission,
\* one or more polls, one download and one extraction
C34_SideEffectsOrdered ==
  /\ [](/\ submitCount <= 1
         /\ downloads <= 1
         /\ extractions <= 1
         /\ (submitCount = 0 <=> clipPc = "auth" \/ clipError.kind = "AuthError")
         /\ (pollCount = 0 <=>
               \/ clipPc \in {"auth", "submit"}
               \/ clipError.kind \in {"AuthError", "SubmitNetworkError",
                                       "Veo API request failed"})
         /\ (downloads = 1 => lastOp.done /\ lastOp.error = "none")
         /\ (clipPc = "returned" =>
               submitCount = 1 /\ pollCount >= 1 /\ downloads = 1 /\ extractions = 1))
  /\ [][SideEffectsInOrder]_vars

\* a result was returned after three polls
C34_Witness ==
  /\ clipPc = "returned"
  /\ submitCount = 1
  /\ pollCount = 3
  /\ downloads = 1
  /\ extractions = 1
-----------------------------------------------------------------------------
\* Further properties of the video assembler

\* the filters of the mix command this assembleVideo started
MixFilters == {processes[i].filters : i \in {j \in 1..Len(processes) :
                                                processes[j].tool = "mix"}}

\* C35: when two or more tracks are mixed the chain of every track has a
\* volume filter with the volume of the track and a delay filter with its
\* startTime, all the chains feed one amix, and the amix lasts as long as
\* its longest input
C35_EveryTrackScaledAndDelayed ==
  \A f \in MixFilters :
     /\ Len(f) = Len(audioTracks) + 1
     /\ \A i \in 1..Len(audioTracks) :
           /\ f[i].op = "chain"
           /\ f[i].input = i - 1
           /\ f[i].volume = <<audioTracks[i].volume>>
           /\ f[i].adelay = <<1000 * audioTracks[i].startTime>>
     /\ f[Len(f)].op = "amix"
     /\ f[Len(f)].inputs = Len(audioTracks)
     /\ f[Len(f)].labels = [i \in 1..Len(audioTracks) |-> f[i].label]
     /\ f[Len(f)].duration = "longest"
-----------------------------------------------------------------------------
\* Further properties of the job queue

\* the status changes of a JobStatus object
StatusSteps ==
  {<<"pending", "processing">>, <<"processing", "completed">>, <<"processing", "failed">>}

\* C36: the status of a job goes pending -> processing -> completed or
\* failed only, and once it is completed or failed no later step changes the
\* status, the result or the error of the job
C36_TerminalStatusAbsorbing ==
  /\ [](\A o \in 1..Len(jobObjects) :
          jobObjects[o].entry.status \in {"pending", "processing", "completed", "failed"})
  /\ [][/\ Len(jobObjects') >= Len(jobObjects)
        /\ \A o \in 1..Len(jobObjects) :
             LET before == jobObjects[o].entry
                 after == jobObjects'[o].entry
             IN  /\ (after.status # before.status =>
                       <<before.status, after.status>> \in StatusSteps)
                 /\ (before.status \in {"completed", "failed"} =>
                       /\ after.status = before.status
                       /\ after.result = before.result
                       /\ after.error = before.error)
        /\ \A o \in (Len(jobObjects) + 1)..Len(jobObjects') :
             jobObjects'[o].entry.status = "processing"]_vars

\* cancelJob was called on a completed job, which is still completed, while
\* another job has failed
C36_Witness ==
  /\ apiLog.call = "cancelJob"
  /\ apiLog.returned = "false"
  /\ activeJobs[apiLog.id] # 0
  /\ jobObjects[activeJobs[apiLog.id]].entry.status = "completed"
  /\ jobObjects[activeJobs[apiLog.id]].entry.result
  /\ \E o \in 1..Len(jobObjects) : jobObjects[o].entry.status = "failed"

\* the objects cancelJob wrote to: the jobs it returned true for
CancelledObjects == {w[1] : w \in {x \in apiLog.writes : x[2][1] = "cancelJob"}}

\* the step is a cancelJob call that returns false
CancelReturnsFalse ==
  /\ apiLog'.call = "cancelJob"
  /\ apiLog'.returned = "false"
  /\ <<apiLog'.call, apiLog'.id, apiLog'.returned>> #
       <<apiLog.call, apiLog.id, apiLog.returned>>

\* C37: a job cancelJob returned true for is never afterwards 'processing'
\* or 'completed' and its task runs no further, and a cancelJob call that
\* returns false leaves every field of the entry as it is; cancelJob never
\* returns true, since a queued job is 'processing' before
\* queueHomeTourGeneration returns
C37_CancelFinalOrWithoutEffect ==
  /\ [](\A o \in CancelledObjects :
          /\ jobObjects[o].entry.status = "failed"
          /\ jobObjects[o].task # "running")
  /\ [](apiLog.call = "cancelJob" => apiLog.returned = "false")
  /\ [][CancelReturnsFalse => jobObjects' = jobObjects /\ activeJobs' = activeJobs]_vars

\* cancelJob returned false for a job that is being processed and whose
\* progress handler was called before
C37_Witness ==
  /\ apiLog.call = "cancelJob"
  /\ apiLog.returned = "false"
  /\ activeJobs[apiLog.id] # 0
  /\ jobObjects[activeJobs[apiLog.id]].entry.status = "processing"
  /\ jobObjects[activeJobs[apiLog.id]].entry.phase = "pipeline"
  /\ jobObjects[activeJobs[apiLog.id]].task = "running"
-----------------------------------------------------------------------------
\* Further properties of makeHomeTour

\* the HomeTourResult makeHomeTour builds after the branding: its duration
\* and its segment counts are read from the ScenePlan
HomeTourResult ==
  [duration |-> plan.totalDuration,
   veoSegments |-> plan.veoSegments,
   kenBurnsSegments |-> plan.kenBurnsSegments]

\* the rendered segments of the technique
RenderedOfType(type) == SelectSeq(videoSegments, LAMBDA seg : seg.type = type)

\* the sum of the durations of the segments handed to the assembler
AssembledDuration ==
  RSum([i \in 1..Len(asmSegments) |-> RInt(asmSegments[i].duration)])

\* C38: the veoSegments and kenBurnsSegments counts and the duration of a
\* successful HomeTourResult are the number of AI-synthesis segments, the
\* number of pan-zoom segments and the sum of the durations of the segments
\* that were rendered and passed to the assembler
C38_ResultCountsRenderedSegments ==
  tourPc = "returned" =>
    /\ Len(asmSegments) = Len(videoSegments)
    /\ HomeTourResult.veoSegments = Len(RenderedOfType("veo"))
    /\ HomeTourResult.kenBurnsSegments = Len(RenderedOfType("kenburns"))
    /\ HomeTourResult.duration = AssembledDuration

\* the step is a status poll that gets a non-OK transport response
NotOkPollStep == clipPc = "poll" /\ lastOp.ok /\ ~lastOp'.ok

\* C39: a non-OK transport response to a status poll ends the render job in
\* failure on that very attempt: the call rejects with 'Failed to poll
\* operation' in the step of the response, no backoff delay is started, no
\* further poll is made and no clip is downloaded or extracted
C39_NotOkPollFailsAtOnce ==
  /\ [][NotOkPollStep =>
          /\ clipPc' = "threw"
          /\ clipError' = [kind |-> "Failed to poll operation", detail |-> "none"]
          /\ lastDelay' = lastDelay
          /\ pollCount' = pollCount
          /\ attempts' = attempts]_vars
  /\ [](~lastOp.ok =>
          /\ clipPc = "threw"
          /\ clipError.kind = "Failed to poll operation"
          /\ downloads = 0
          /\ extractions = 0
          /\ videoGcsUri = "none")
  /\ [][~lastOp.ok =>
          /\ pollCount' = pollCount
          /\ lastDelay' = lastDelay
          /\ downloads' = downloads
          /\ clipPc' = clipPc]_vars

\* the second status poll got a non-OK response: the call has failed after
\* two polls, and the last delay is the one waited after the first poll
C39_Witness ==
  /\ ~lastOp.ok
  /\ clipPc = "threw"
  /\ clipError.kind = "Failed to poll operation"
  /\ pollCount = 2
  /\ lastDelay.base = BaseDelay(1)
  /\ downloads = 0
====
